---- MODULE Spec2Model ----
(***************************************************************************)
(* Aggregation / resilience core of sme_solution: the per-provider rate    *)
(* limiter, the retry executors, the TTL caches and                        *)
(* DataSourceManager.get_business_data.                                    *)
(*                                                                         *)
(* Time is the wall clock in whole seconds.  Each component has its own    *)
(* specification (SpecRL, SpecRetry, SpecAgg, SpecCache, SpecMerge, ...);  *)
(* the variables of the other components stay at their initial values.     *)
(***************************************************************************)
EXTENDS Integers, Sequences, FiniteSets, TLC

VARIABLES
    now,                \* time.time() / datetime.now(), in seconds
    \* ---- APIRateLimiter ----
    calls_per_minute,   \* APIRateLimiter.calls_per_minute
    calls,              \* APIRateLimiter.calls (recorded timestamps)
    rlError,            \* "none" or the exception wait_if_needed raised
    admitted,           \* history: the times at which wait_if_needed returned
    \* ---- retry executors: _make_api_request and safe_request ----
    fetcher,            \* which copy of BusinessDataFetcher: "shared" | "smeanalytica"
    provider,           \* the set of answers the provider gives in this run
    executor,           \* the function running: "_make_api_request" | "safe_request"
    rqPc,               \* "idle" | "loop" | "done"
    current_retry,      \* current_retry / attempt
    last_request_time,  \* BusinessDataFetcher.last_request_time
    rqOutcome,          \* how the call ended
    rqRequests,         \* history: session.get / requests.get calls of this call
    rqSleeps,           \* history: time.sleep calls made after a failed attempt
    rqSentAt,           \* history: when the last request of the fetcher was sent
    rqLastBefore,       \* history: last_request_time as read before that request
    rqAnswer,           \* history: the provider's answer to that request
    rqHeader,           \* history: the Retry-After header of that answer
    rqAttempt,          \* history: current_retry when that request was sent
    rqWait,             \* history: the sleep that followed that request, if any
    \* ---- DataSourceManager ----
    google_places_key,  \* DataSourceManager.google_places_key is set
    cache,              \* DataSourceManager.cache: key -> None | [data, timestamp]
    agPc,               \* "idle" | "places" | "competitors" | "market" | "done"
    agArgs,             \* the arguments of the get_business_data call in progress
    data,               \* the local `data` of get_business_data
    agResult,           \* what the call returned (None while running)
    agRaised,           \* the exception that reached the caller, or None
    agFromCache,        \* history: the call was answered from the cache
    agSteps,            \* history: provider steps run by this call
    agRequests,         \* history: HTTP requests sent by this call
    agFailed,           \* history: the provider steps of this call that failed
    agCalls,            \* history: get_business_data calls made so far
    \* ---- DataCache (smeanalytica/shared/cache.py) ----
    initialized,        \* DataCache.initialized
    ttl_seconds,        \* DataCache._ttl_seconds
    dcCache,            \* DataCache._cache: key -> None | [data, timestamp]
    hits,               \* DataCache._hits
    misses,             \* DataCache._misses
    cleanupPc,          \* _periodic_cleanup: "off" | "scan" | "invalidate" | "sleep"
    expired_keys,       \* _periodic_cleanup: keys still to invalidate
    wakeAt,             \* _periodic_cleanup: when its asyncio.sleep ends
    dcGot,              \* history: the last get: [key, value] or None
    dcGets,             \* history: get calls completed since the last clear
    \* ---- RestaurantDataFetcher cache ----
    data_cache,         \* RestaurantDataFetcher.data_cache: key -> None | <<data, timestamp>>
    cache_duration,     \* RestaurantDataFetcher.cache_duration, seconds
    rcGot,              \* history: the last _get_from_cache: [key, value] or None
    rcGets,             \* history: _get_from_cache calls made so far
    \* ---- BusinessDataFetcher._combine_business_data ----
    mergeData,          \* the `data` argument: [tripadvisor, google_places]
    combined,           \* the dict _combine_business_data returned (None before)
    mergePc,            \* "ready" | "done"
    \* ---- DataSourceManager.get_competitors ----
    gcPc,               \* "idle" | "business_data" | "google" | "yelp" | "done"
    gcArgs,             \* the arguments of the get_competitors call in progress
    gcCompetitors,      \* the local `competitors` of get_competitors
    gcProvided,         \* history: the entries the providers returned to this call
    gcResult,           \* what get_competitors returned (None while running)
    gcError,            \* history: the exception the outer except swallowed, or None
    gcFromCache,        \* history: the call was answered from the cache
    gcCalls,            \* history: get_competitors calls made so far
    \* ---- get_reviews ----
    grPc,               \* get_reviews: idle, google, yelp, tripadvisor, done, raised
    grArgs,             \* its arguments: business_name, limit
    all_reviews,        \* the reviews accumulated so far
    errors,             \* the providers whose step raised, in order
    grLog,              \* history: per provider, whether it was queried and the count before its step
    grResult,           \* the list returned; <<>> while there is none
    grRaised,           \* the exception that left get_reviews, or None
    grFromCache,        \* history: the call was answered from the cache
    grCalls,            \* history: calls made
    \* ---- candidate matching ----
    mtPc,               \* candidate matching: idle, restaurant, attraction, done
    mtQuery,            \* the name searched for, a sequence of letters
    mtCandidates,       \* the names of the candidates the provider answers with
    mtAttempt,          \* history: the search attempt that was answered, 0 when none
    mtTarget,           \* the index of the candidate chosen, 0 when none
    mtClosest,          \* history: the first candidate was taken as closest match
    \* ---- RestaurantDataFetcher.get_business_details ----
    bdPc,               \* get_business_details: idle, google, historical, unwind, raised
    bdName,             \* its argument
    bdTripAdvisor,      \* what _get_tripadvisor_data would return for the name, NoneRec for {}
    bdGoogle,           \* history: what Google returned to the outermost call, NoneRec for {}
    bdStack,            \* the Google records of the get_business_details frames awaiting get_historical_data
    bdResult,           \* the record returned, or NoneRec
    bdRaised,           \* the exception travelling up or raised to the caller, or None
    bdCalls,            \* history: calls made
    \* ---- adapter instances of one provider ----
    rate_limit,         \* DataSourceConfig.RATE_LIMITS of the provider, scaled down
    limiters,           \* the calls list of the rate_limiter of each adapter instance constructed
    adAdmitted,         \* history: the times at which a request of any instance was admitted
    \* ---- DataSourceConfig.is_data_sufficient ----
    sfPc,               \* is_data_sufficient: ready, done
    sfType,             \* the data_type argument
    sfData,             \* the data argument: field -> Absent or the value's kind
    sfResult,           \* what is_data_sufficient returned
    \* ---- TripAdvisorAdapter ----
    taPc,               \* get_complete_data: idle, or the endpoint about to be requested, or done
    taCache,            \* TripAdvisorAdapter.cache holds the complete data of the business
    taRequests,         \* history: session.get calls of this operation, per endpoint
    taCacheReads,       \* history: cache.get calls of this operation
    taCacheWrites,      \* history: cache.set calls of this operation
    taAnswers,          \* history: the answers the provider gave in this operation
    taResult,           \* what get_complete_data returned
    taError,            \* history: the exception caught in this operation, or None
    taCalls,            \* history: get_complete_data calls made
    \* ---- API rate-limit middleware ----
    rate_limit_cache,   \* the TTLCache of the middleware: per endpoint type, the RateLimiter and the expiry of its entry
    mwAllowed,          \* history: the requests the middleware let through, [client, endpoint, t]
    mwLast,             \* history: the last decision of the middleware
    mwCalls             \* history: requests the middleware has decided

rlVars == <<calls_per_minute, calls, rlError, admitted>>

rqVars == <<fetcher, provider, executor, rqPc, current_retry, last_request_time,
            rqOutcome, rqRequests, rqSleeps,
            rqSentAt, rqLastBefore, rqAnswer, rqHeader, rqAttempt, rqWait>>

agVars == <<google_places_key, cache, agPc, agArgs, data, agResult, agRaised,
            agFromCache, agSteps, agRequests, agFailed, agCalls>>

dcVars == <<initialized, ttl_seconds, dcCache, hits, misses, cleanupPc,
            expired_keys, wakeAt, dcGot, dcGets>>

rcVars == <<data_cache, cache_duration, rcGot, rcGets>>

mergeVars == <<mergeData, combined, mergePc>>

gcVars == <<gcPc, gcArgs, gcCompetitors, gcProvided, gcResult, gcError, gcFromCache,
            gcCalls>>

grVars == <<grPc, grArgs, all_reviews, errors, grLog, grResult, grRaised, grFromCache, grCalls>>

matchVars == <<mtPc, mtQuery, mtCandidates, mtAttempt, mtTarget, mtClosest>>

bdVars == <<bdPc, bdName, bdTripAdvisor, bdGoogle, bdStack, bdResult, bdRaised, bdCalls>>

adVars == <<rate_limit, limiters, adAdmitted>>

sfVars == <<sfPc, sfType, sfData, sfResult>>

taVars == <<taPc, taCache, taRequests, taCacheReads, taCacheWrites, taAnswers, taResult, taError, taCalls>>

mwVars == <<rate_limit_cache, mwAllowed, mwLast, mwCalls>>

restVars == <<mergeVars, gcVars, grVars, matchVars, bdVars, adVars, sfVars, taVars, mwVars>>

exceptMergeVars == <<gcVars, grVars, matchVars, bdVars, adVars, sfVars, taVars, mwVars>>

exceptGcVars == <<mergeVars, grVars, matchVars, bdVars, adVars, sfVars, taVars, mwVars>>

exceptGrVars == <<mergeVars, gcVars, matchVars, bdVars, adVars, sfVars, taVars, mwVars>>

exceptMatchVars == <<mergeVars, gcVars, grVars, bdVars, adVars, sfVars, taVars, mwVars>>

exceptBdVars == <<mergeVars, gcVars, grVars, matchVars, adVars, sfVars, taVars, mwVars>>

exceptAdVars == <<mergeVars, gcVars, grVars, matchVars, bdVars, sfVars, taVars, mwVars>>

exceptSfVars == <<mergeVars, gcVars, grVars, matchVars, bdVars, adVars, taVars, mwVars>>

exceptTaVars == <<mergeVars, gcVars, grVars, matchVars, bdVars, adVars, sfVars, mwVars>>

exceptMwVars == <<mergeVars, gcVars, grVars, matchVars, bdVars, adVars, sfVars, taVars>>

vars == <<now, rlVars, rqVars, agVars, dcVars, rcVars, restVars>>

\* Python's None, for a string, a number and a dict or tuple
None == "None"

NoneInt == 0 - 1

NoneRec == [none |-> TRUE]

(***************************************************************************)
(* Helpers                                                                 *)
(***************************************************************************)
Max(a, b) == IF a >= b THEN a ELSE b

Min(a, b) == IF a <= b THEN a ELSE b

\* 2 ** n
RECURSIVE Pow2(_)
Pow2(n) == IF n <= 0 THEN 1 ELSE 2 * Pow2(n - 1)

(***************************************************************************)
(* APIRateLimiter                                                          *)
(***************************************************************************)
\* the trailing window of wait_if_needed: minute_ago = now - 60
Window == 60

\* bounds of the rate-limiter specification
MaxCpm == 2
MaxCalls == 4
RLMaxTime == 140
RLSteps == {20, 40}

\* self.calls = [call for call in self.calls if call > minute_ago]
TrimCalls(cs, t) ==
    LET Recent(c) == c > t - Window IN SelectSeq(cs, Recent)

\* APIRateLimiter.__init__
RLInit ==
    /\ calls_per_minute \in 0..MaxCpm
    /\ calls = <<>>
    /\ rlError = "none"
    /\ admitted = <<>>

RLIdle ==
    /\ calls_per_minute = 0
    /\ calls = <<>>
    /\ rlError = "none"
    /\ admitted = <<>>

RQIdle ==
    /\ fetcher = "shared"
    /\ provider = {}
    /\ executor = "_make_api_request"
    /\ rqPc = "idle"
    /\ current_retry = 0
    /\ last_request_time = 0
    /\ rqOutcome = "none"
    /\ rqRequests = 0
    /\ rqSleeps = 0
    /\ rqSentAt = NoneInt
    /\ rqLastBefore = NoneInt
    /\ rqAnswer = None
    /\ rqHeader = NoneInt
    /\ rqAttempt = NoneInt
    /\ rqWait = NoneInt

\* the arguments get_business_data is called with: a blank name, a business
\* without a type, the same business at two locations, with and without
\* force_refresh
CallArguments ==
    {[name |-> "", type |-> "restaurant", location |-> "L1", force_refresh |-> FALSE],
     [name |-> "A", type |-> None, location |-> "L1", force_refresh |-> FALSE],
     [name |-> "A", type |-> "restaurant", location |-> "L1", force_refresh |-> FALSE],
     [name |-> "A", type |-> "restaurant", location |-> "L2", force_refresh |-> FALSE],
     [name |-> "A", type |-> "restaurant", location |-> "L1", force_refresh |-> TRUE],
     [name |-> "A", type |-> None, location |-> "L2", force_refresh |-> TRUE]}

Names == {a.name : a \in CallArguments}

\* DataSourceManager._get_cache_key: f"{business_name}:{data_type}"
_get_cache_key(business_name, data_type) == <<business_name, data_type>>

CacheKeys ==
    {_get_cache_key(n, t) : n \in Names, t \in {"business_data", "competitors", "reviews"}}

\* the keys the small caches are exercised with
Keys == {"k1", "k2"}

AGIdle ==
    /\ google_places_key = TRUE
    /\ cache = [k \in CacheKeys |-> NoneRec]
    /\ agPc = "idle"
    /\ agArgs = NoneRec
    /\ data = NoneRec
    /\ agResult = NoneRec
    /\ agRaised = None
    /\ agFromCache = FALSE
    /\ agSteps = 0
    /\ agRequests = 0
    /\ agFailed = {}
    /\ agCalls = 0

\* no DataCache has been constructed
DCIdle ==
    /\ initialized = FALSE
    /\ ttl_seconds = NoneInt
    /\ dcCache = [k \in Keys |-> NoneRec]
    /\ hits = 0
    /\ misses = 0
    /\ cleanupPc = "off"
    /\ expired_keys = {}
    /\ wakeAt = 0
    /\ dcGot = NoneRec
    /\ dcGets = 0

\* no RestaurantDataFetcher has been constructed
RCIdle ==
    /\ data_cache = [k \in Keys |-> NoneRec]
    /\ cache_duration = NoneInt
    /\ rcGot = NoneRec
    /\ rcGets = 0

\* _combine_business_data has not been called
MergeIdle ==
    /\ mergeData = NoneRec
    /\ combined = NoneRec
    /\ mergePc = "done"

\* get_competitors has not been called
GCIdle ==
    /\ gcPc = "idle"
    /\ gcArgs = NoneRec
    /\ gcCompetitors = <<>>
    /\ gcProvided = <<>>
    /\ gcResult = NoneRec
    /\ gcError = None
    /\ gcFromCache = FALSE
    /\ gcCalls = 0

GRIdle ==
    /\ grPc = "idle"
    /\ grArgs = NoneRec
    /\ all_reviews = <<>>
    /\ errors = <<>>
    /\ grLog = [p \in {"google", "yelp", "tripadvisor"} |-> [queried |-> FALSE, before |-> 0]]
    /\ grResult = <<>>
    /\ grRaised = None
    /\ grFromCache = FALSE
    /\ grCalls = 0

MatchIdle ==
    /\ mtPc = "idle"
    /\ mtQuery = <<>>
    /\ mtCandidates = <<>>
    /\ mtAttempt = 0
    /\ mtTarget = 0
    /\ mtClosest = FALSE

BDIdle ==
    /\ bdPc = "idle"
    /\ bdName = None
    /\ bdTripAdvisor = NoneRec
    /\ bdGoogle = NoneRec
    /\ bdStack = <<>>
    /\ bdResult = NoneRec
    /\ bdRaised = None
    /\ bdCalls = 0

AdIdle ==
    /\ rate_limit = 0
    /\ limiters = <<>>
    /\ adAdmitted = <<>>

SfIdle ==
    /\ sfPc = "idle"
    /\ sfType = None
    /\ sfData = NoneRec
    /\ sfResult = FALSE

TAIdle ==
    /\ taPc = "idle"
    /\ taCache = FALSE
    /\ taRequests = [e \in {"search", "details", "reviews", "photos"} |-> 0]
    /\ taCacheReads = 0
    /\ taCacheWrites = 0
    /\ taAnswers = {}
    /\ taResult = None
    /\ taError = None
    /\ taCalls = 0

MwIdle ==
    /\ rate_limit_cache = [e \in {"analysis", "search"} |-> NoneRec]
    /\ mwAllowed = <<>>
    /\ mwLast = NoneRec
    /\ mwCalls = 0

RestIdle == MergeIdle /\ GCIdle /\ GRIdle /\ MatchIdle /\ BDIdle /\ AdIdle /\ SfIdle /\ TAIdle /\ MwIdle

ExceptMergeIdle == GCIdle /\ GRIdle /\ MatchIdle /\ BDIdle /\ AdIdle /\ SfIdle /\ TAIdle /\ MwIdle

ExceptGCIdle == MergeIdle /\ GRIdle /\ MatchIdle /\ BDIdle /\ AdIdle /\ SfIdle /\ TAIdle /\ MwIdle

ExceptGRIdle == MergeIdle /\ GCIdle /\ MatchIdle /\ BDIdle /\ AdIdle /\ SfIdle /\ TAIdle /\ MwIdle

ExceptMatchIdle == MergeIdle /\ GCIdle /\ GRIdle /\ BDIdle /\ AdIdle /\ SfIdle /\ TAIdle /\ MwIdle

ExceptBDIdle == MergeIdle /\ GCIdle /\ GRIdle /\ MatchIdle /\ AdIdle /\ SfIdle /\ TAIdle /\ MwIdle

ExceptAdIdle == MergeIdle /\ GCIdle /\ GRIdle /\ MatchIdle /\ BDIdle /\ SfIdle /\ TAIdle /\ MwIdle

ExceptSfIdle == MergeIdle /\ GCIdle /\ GRIdle /\ MatchIdle /\ BDIdle /\ AdIdle /\ TAIdle /\ MwIdle

ExceptTAIdle == MergeIdle /\ GCIdle /\ GRIdle /\ MatchIdle /\ BDIdle /\ AdIdle /\ SfIdle /\ MwIdle

ExceptMwIdle == MergeIdle /\ GCIdle /\ GRIdle /\ MatchIdle /\ BDIdle /\ AdIdle /\ SfIdle /\ TAIdle

\* The timestamp wait_if_needed records: the `now` read on entry.
RecordedCall(entry, wake) == entry

\* APIRateLimiter.wait_if_needed, the whole call.  time.sleep blocks the
\* caller, so the clock stands at entry + sleep_time when the call returns.
wait_if_needed ==
    /\ rlError = "none"
    /\ Len(admitted) < MaxCalls
    /\ LET trimmed == TrimCalls(calls, now) IN
         IF Len(trimmed) >= calls_per_minute
         THEN IF trimmed = <<>>
              THEN \* self.calls[0] on an empty list
                   /\ rlError' = "IndexError"
                   /\ calls' = trimmed
                   /\ UNCHANGED <<now, admitted>>
              ELSE LET sleep_time == Window - (now - trimmed[1])
                       wake == IF sleep_time > 0 THEN now + sleep_time ELSE now
                   IN /\ now' = wake
                      /\ calls' = Append(trimmed, RecordedCall(now, wake))
                      /\ admitted' = Append(admitted, wake)
                      /\ UNCHANGED rlError
         ELSE /\ calls' = Append(trimmed, RecordedCall(now, now))
              /\ admitted' = Append(admitted, now)
              /\ UNCHANGED <<now, rlError>>
    /\ UNCHANGED <<calls_per_minute, rqVars, agVars, dcVars, rcVars, restVars>>

\* time passes between two calls
RLTick ==
    /\ \E d \in RLSteps : now + d <= RLMaxTime /\ now' = now + d
    /\ UNCHANGED <<rlVars, rqVars, agVars, dcVars, rcVars, restVars>>

InitRL == now = 0 /\ RLInit /\ RQIdle /\ AGIdle /\ DCIdle /\ RCIdle /\ RestIdle

NextRL == wait_if_needed \/ RLTick

SpecRL == InitRL /\ [][NextRL]_vars

\* the number of calls admitted in the window (t - 60, t]
AdmittedInWindow(t) ==
    Cardinality({i \in DOMAIN admitted : admitted[i] > t - Window /\ admitted[i] <= t})

\* C1: in any trailing 60-second window the number of calls that returned
\* from wait_if_needed never exceeds calls_per_minute.
C1_WindowBound ==
    \A i \in DOMAIN admitted : AdmittedInWindow(admitted[i]) <= calls_per_minute

(***************************************************************************)
(* Retry executors: BusinessDataFetcher._make_api_request and safe_request *)
(***************************************************************************)
\* _make_api_request: max_retries = 3
max_retries == 3

\* _make_api_request: base_wait_time = 5
base_wait_time == 5

\* BusinessDataFetcher.min_request_interval = 2.0
min_request_interval == 2

\* safe_request(url, headers, params=None, retries=3, delay=2)
retries == 3

delay == 2

\* bounds of the retry specification
RQMaxRequests == 5
RQMaxTime == 6

\* the clock reading when the fetcher is built (last_request_time starts at 0)
RQEpoch == 10

\* what a provider can answer: an HTTP status, or no answer at all
Answers == {"200", "204", "404", "429", "500", "error"}

\* the provider behaviours explored
Providers == {{"429"}, {"404"}, {"200", "500", "error"}, Answers}

\* Retry-After header values a 429 can carry (NoneInt: header absent)
RetryAfterValues == {NoneInt, 1, 30}

\* random.uniform(0, self.jitter_range), jitter_range = 0.5, in whole seconds
PreJitter == {0}

\* random.uniform(0, 2), in whole seconds
BackoffJitter == {0, 1, 2}

\* Retry(status_forcelist=[429, 500, 502, 503, 504], raise_on_status=True)
status_forcelist == {"429", "500"}

\* self.session.get through the mounted HTTPAdapter(max_retries=retry_strategy):
\* a status of the force list ends, once urllib3's own retries are used up,
\* as requests.exceptions.RetryError (a RequestException without response);
\* a transport failure is a RequestException without response as well.
SessionGet(answer) ==
    IF answer \in status_forcelist THEN [kind |-> "exception", status |-> None]
    ELSE IF answer = "error" THEN [kind |-> "exception", status |-> None]
    ELSE [kind |-> "response", status |-> answer]

\* requests.get without a session adapter (safe_request)
RequestsGet(answer) ==
    IF answer = "error" THEN [kind |-> "exception", status |-> None]
    ELSE [kind |-> "response", status |-> answer]

\* response.raise_for_status(): HTTPError for 4xx and 5xx, nothing otherwise
RaisesForStatus(status) == status \in {"404", "429", "500"}

\* `time` and `random` are module globals of src/shared/business_data_fetcher.py
\* (import time, import random); the smeanalytica copy imports neither.
TimeImported(f) == f = "shared"

\* the log call of the retry branches: app.logger.warning in the shared copy,
\* where no name `app` exists (NameError); print in the smeanalytica copy.
LogWarning(f) == IF f = "shared" THEN "NameError" ELSE "ok"

\* wait_time = self.min_request_interval - time_since_last_request + jitter
\* variant: the remainder of the interval is cut by a second
wait_time_short(since, jitter) == min_request_interval - since - 1 + jitter

wait_time(since, jitter) == min_request_interval - since + jitter

\* int(response.headers.get('Retry-After', base_wait_time * (2 ** current_retry)))
RetryAfter(header, retry) ==
    IF header = NoneInt THEN base_wait_time * Pow2(retry) ELSE header

\* the exception branch with retries used up (lines 153-159)
ExhaustedError(status) ==
    IF status = "429" THEN "RateLimitExceeded" ELSE "RequestFailed"

\* a caller enters _make_api_request or safe_request
RQStart ==
    /\ rqPc \in {"idle", "done"}
    /\ now <= RQEpoch + RQMaxTime
    /\ \E e \in {"_make_api_request", "safe_request"} : executor' = e
    /\ rqPc' = "loop"
    /\ current_retry' = 0
    /\ rqOutcome' = "none"
    /\ rqRequests' = 0
    /\ rqSleeps' = 0
    /\ rqSentAt' = NoneInt
    /\ rqLastBefore' = NoneInt
    /\ rqAnswer' = None
    /\ rqHeader' = NoneInt
    /\ rqAttempt' = NoneInt
    /\ rqWait' = NoneInt
    /\ UNCHANGED <<now, fetcher, provider, last_request_time>>
    /\ UNCHANGED <<rlVars, agVars, dcVars, rcVars, restVars>>

\* leaves the retry branch of _make_api_request: log, sleep, current_retry += 1,
\* continue; the while condition is evaluated at once.
RetryAfterSleep(sent, wait) ==
    IF LogWarning(fetcher) = "NameError"
    THEN /\ rqPc' = "done"
         /\ rqOutcome' = "NameError"
         /\ now' = sent
         /\ rqWait' = NoneInt
         /\ UNCHANGED <<current_retry, rqSleeps>>
    ELSE /\ now' = sent + wait
         /\ rqWait' = wait
         /\ rqSleeps' = rqSleeps + 1
         /\ current_retry' = current_retry + 1
         /\ IF current_retry + 1 < max_retries
            THEN rqPc' = "loop" /\ UNCHANGED rqOutcome
            ELSE rqPc' = "done" /\ rqOutcome' = "MaxRetriesExceeded"

\* the except branch of _make_api_request (lines 146-159)
HandleRequestException(sent, status) ==
    IF current_retry < max_retries - 1
    THEN \E j \in BackoffJitter :
            RetryAfterSleep(sent, base_wait_time * Pow2(current_retry) + j)
    ELSE /\ rqPc' = "done"
         /\ rqOutcome' = ExhaustedError(status)
         /\ now' = sent
         /\ rqWait' = NoneInt
         /\ UNCHANGED <<current_retry, rqSleeps>>

\* one iteration of the while loop of _make_api_request (lines 113-161)
MakeApiRequestAttempt ==
    /\ rqPc = "loop"
    /\ executor = "_make_api_request"
    /\ rqRequests < RQMaxRequests
    /\ IF ~TimeImported(fetcher)
       THEN \* current_time = time.time() raises NameError inside the try
            /\ rqPc' = "done"
            /\ rqOutcome' = "NameError"
            /\ UNCHANGED <<now, current_retry, last_request_time, rqRequests, rqSleeps,
                           rqSentAt, rqLastBefore, rqAnswer, rqHeader, rqAttempt, rqWait>>
       ELSE \E answer \in provider, j0 \in PreJitter, header \in RetryAfterValues :
            LET since == now - last_request_time
                sent == IF since < min_request_interval
                        THEN now + wait_time(since, j0) ELSE now
                r == SessionGet(answer)
            IN /\ rqRequests' = rqRequests + 1
               /\ rqSentAt' = sent
               /\ rqLastBefore' = last_request_time
               /\ rqAnswer' = answer
               /\ rqHeader' = IF answer = "429" THEN header ELSE NoneInt
               /\ rqAttempt' = current_retry
               /\ IF r.kind = "exception"
                  THEN /\ UNCHANGED last_request_time
                       /\ HandleRequestException(sent, r.status)
                  ELSE /\ last_request_time' = sent
                       /\ IF r.status = "200"
                          THEN /\ rqPc' = "done"
                               /\ rqOutcome' = "ok"
                               /\ now' = sent
                               /\ rqWait' = NoneInt
                               /\ UNCHANGED <<current_retry, rqSleeps>>
                          ELSE IF r.status = "429"
                          THEN \E j \in BackoffJitter :
                                  RetryAfterSleep(sent, RetryAfter(header, current_retry) + j)
                          ELSE IF RaisesForStatus(r.status)
                          THEN HandleRequestException(sent, r.status)
                          ELSE \* nothing raised: the loop runs again
                               /\ now' = sent
                               /\ rqWait' = NoneInt
                               /\ UNCHANGED <<rqPc, rqOutcome, current_retry, rqSleeps>>
    /\ UNCHANGED <<fetcher, provider, executor>>
    /\ UNCHANGED <<rlVars, agVars, dcVars, rcVars, restVars>>

\* how long safe_request sleeps after an attempt that did not return
SafeRequestSleep(r, header, attempt) ==
    IF r.kind = "exception"
    THEN IF attempt < retries - 1 THEN delay ELSE NoneInt
    ELSE IF r.status = "429"
         THEN IF header = NoneInt THEN delay ELSE header
         ELSE delay

\* one iteration of the for loop of safe_request (lines 17-33)
SafeRequestAttempt ==
    /\ rqPc = "loop"
    /\ executor = "safe_request"
    /\ \E answer \in provider, header \in RetryAfterValues :
         LET r == RequestsGet(answer)
             sleep == SafeRequestSleep(r, header, current_retry)
         IN /\ rqRequests' = rqRequests + 1
            /\ IF r.kind = "response" /\ r.status = "200"
               THEN /\ rqPc' = "done"
                    /\ rqOutcome' = "ok"
                    /\ UNCHANGED <<now, current_retry, rqSleeps>>
               ELSE /\ IF sleep = NoneInt
                       THEN UNCHANGED <<now, rqSleeps>>
                       ELSE now' = now + sleep /\ rqSleeps' = rqSleeps + 1
                    /\ current_retry' = current_retry + 1
                    /\ IF current_retry + 1 < retries
                       THEN rqPc' = "loop" /\ UNCHANGED rqOutcome
                       ELSE rqPc' = "done" /\ rqOutcome' = "None"
    /\ UNCHANGED <<fetcher, provider, executor, last_request_time>>
    /\ UNCHANGED <<rqSentAt, rqLastBefore, rqAnswer, rqHeader, rqAttempt, rqWait>>
    /\ UNCHANGED <<rlVars, agVars, dcVars, rcVars, restVars>>

\* time passes while no request is in flight
RQTick ==
    /\ now < RQEpoch + RQMaxTime
    /\ now' = now + 1
    /\ UNCHANGED <<rlVars, rqVars, agVars, dcVars, rcVars, restVars>>

RQInit ==
    /\ fetcher \in {"shared", "smeanalytica"}
    /\ provider \in Providers
    /\ executor = "_make_api_request"
    /\ rqPc = "idle"
    /\ current_retry = 0
    /\ last_request_time = 0
    /\ rqOutcome = "none"
    /\ rqRequests = 0
    /\ rqSleeps = 0
    /\ rqSentAt = NoneInt
    /\ rqLastBefore = NoneInt
    /\ rqAnswer = None
    /\ rqHeader = NoneInt
    /\ rqAttempt = NoneInt
    /\ rqWait = NoneInt

InitRetry == now = RQEpoch /\ RLIdle /\ RQInit /\ AGIdle /\ DCIdle /\ RCIdle /\ RestIdle

NextRetry == RQStart \/ MakeApiRequestAttempt \/ SafeRequestAttempt \/ RQTick

SpecRetry == InitRetry /\ [][NextRetry]_vars

\* C2: against a provider that answers 429 to every request,
\* _make_api_request makes max_retries attempts and ends with the
\* rate-limit-exceeded error.
C2_RateLimitExhaustion ==
    (executor = "_make_api_request" /\ provider = {"429"} /\ rqPc = "done")
        => (rqRequests = max_retries /\ rqOutcome = "RateLimitExceeded")

\* C3: when the provider answers 404, a retry executor sends exactly one
\* request and fails at once: no sleep, no retry.
C3_NotFoundFailsAtOnce ==
    (fetcher = "shared" /\ provider = {"404"} /\ rqPc = "done")
        => (rqRequests = 1 /\ rqSleeps = 0 /\ rqOutcome \notin {"ok", "None"})

(***************************************************************************)
(* DataSourceManager.get_business_data and its cache                       *)
(***************************************************************************)
\* self.cache_ttl = timedelta(minutes=10), in seconds
cache_ttl == 600

\* search_data.get('results', [])[:8]
TopResults == 8

\* result.get('price_level', 2) / target_price_level = 2
DefaultPriceLevel == 2

\* bounds of the aggregator specification
AggMaxTime == 800
AggMaxCalls == 2
AggSteps == {400}

\* what the Places text search and the details endpoint can answer
SearchAnswers == {"error", "REQUEST_DENIED", "ZERO_RESULTS", "OK"}

DetailsAnswers == {"error", "NOT_FOUND", "OK"}

\* str.lower()
Lower(name) ==
    CASE name = "A" -> "a"
      [] name = "C" -> "c"
      [] name = "Cafe Luz" -> "cafe luz"
      [] name = "Cafe  Luz" -> "cafe  luz"
      [] OTHER -> name

\* the answers of the Places API to one _get_places_data call: every failure,
\* and a success with a rating and no price level (NoneInt: absent)
PlacesOracles ==
    {[search |-> a, details |-> "OK", rating |-> NoneInt, price_level |-> NoneInt]
        : a \in SearchAnswers \ {"OK"}}
    \cup {[search |-> "OK", details |-> d, rating |-> NoneInt, price_level |-> NoneInt]
        : d \in DetailsAnswers \ {"OK"}}
    \cup {[search |-> "OK", details |-> "OK", rating |-> 4, price_level |-> NoneInt]}

\* the results of a competitor text search, each with its details answer:
\* "a" is the target "A" written in another case, "C" another business
SearchResults ==
    {<<>>,
     <<[name |-> "C", details |-> "OK", rating |-> NoneInt]>>,
     <<[name |-> "a", details |-> "OK", rating |-> 4],
       [name |-> "C", details |-> "OK", rating |-> 4]>>}

\* dict.update: the keys of u win
Update(d, u) == u @@ d

\* the `data` dict get_business_data starts from, and its last-resort return
InitialData(business_name, business_type, location) ==
    [name |-> business_name, type |-> business_type, location |-> location,
     rating |-> NoneInt, price_level |-> NoneInt,
     competitors |-> <<>>, market_data |-> "{}"]

\* the dict _get_places_data returns on success (lines 257-265); types, reviews
\* and user_ratings_total are copied from the answer like formatted_address
\* variant: the Places record also carries the provider's own name field
PlacesRecordNamed(o) ==
    [name |-> "provider name", place_id |-> "place", formatted_address |-> "address",
     rating |-> o.rating,
     price_level |-> IF o.price_level = NoneInt THEN DefaultPriceLevel ELSE o.price_level]

PlacesRecord(o) ==
    [place_id |-> "place", formatted_address |-> "address",
     rating |-> o.rating,
     price_level |-> IF o.price_level = NoneInt THEN DefaultPriceLevel ELSE o.price_level]

\* DataSourceManager._get_places_data: [raised, value, requests]
_get_places_data(key, o) ==
    IF ~key THEN [raised |-> TRUE, value |-> NoneRec, requests |-> 0]
    ELSE IF o.search = "error" THEN [raised |-> TRUE, value |-> NoneRec, requests |-> 1]
    ELSE IF o.search = "REQUEST_DENIED"
         THEN [raised |-> TRUE, value |-> NoneRec, requests |-> 1]
    ELSE IF o.search # "OK" THEN [raised |-> FALSE, value |-> NoneRec, requests |-> 1]
    ELSE IF o.details = "error" THEN [raised |-> TRUE, value |-> NoneRec, requests |-> 2]
    ELSE IF o.details # "OK" THEN [raised |-> FALSE, value |-> NoneRec, requests |-> 2]
    ELSE [raised |-> FALSE, value |-> PlacesRecord(o), requests |-> 2]

\* the entry _get_competitor_data builds for the target business (lines 315-325)
TargetEntry(business_name, target_data) ==
    [name |-> business_name, rating |-> target_data.rating, is_target |-> TRUE]

\* the entries built in the loop over the search results (lines 328-371)
RECURSIVE OtherEntries(_, _)
OtherEntries(business_name, results) ==
    IF results = <<>> THEN <<>>
    ELSE LET place == Head(results)
             rest == OtherEntries(business_name, Tail(results))
         IN IF Lower(place.name) # Lower(business_name) /\ place.details = "OK"
            THEN <<[name |-> place.name, rating |-> place.rating, is_target |-> FALSE]>>
                     \o rest
            ELSE rest

\* the details requests sent in that loop
RECURSIVE DetailRequests(_, _)
DetailRequests(business_name, results) ==
    IF results = <<>> THEN 0
    ELSE (IF Lower(Head(results).name) # Lower(business_name) THEN 1 ELSE 0)
           + DetailRequests(business_name, Tail(results))

\* valid_competitors (lines 374-377): price_level is never None (default 2) and
\* the modelled results are all operational, so the rating decides
ValidCompetitors(competitors) ==
    LET Valid(c) == c.rating # NoneInt IN SelectSeq(competitors, Valid)

\* DataSourceManager._get_competitor_data: [value, requests]; it never raises
_get_competitor_data(business_name, key, o, searchAnswer, results) ==
    IF ~key THEN [value |-> <<>>, requests |-> 0]
    ELSE LET target == _get_places_data(key, o) IN
         IF target.raised \/ target.value = NoneRec
         THEN [value |-> <<>>, requests |-> target.requests]
         ELSE IF searchAnswer # "OK"
         THEN [value |-> <<>>, requests |-> target.requests + 1]
         ELSE LET top == SubSeq(results, 1, Min(Len(results), TopResults))
              IN [value |-> ValidCompetitors(
                                <<TargetEntry(business_name, target.value)>>
                                    \o OtherEntries(business_name, top)),
                  requests |-> target.requests + 1 + DetailRequests(business_name, top)]

\* DataSourceManager._get_market_data: business_type.lower() on None raises
\* AttributeError, which the function turns into {}
_get_market_data(business_type) == IF business_type = None THEN "{}" ELSE "market"

\* the test of DataSourceManager._get_from_cache: the entry is still fresh
\* variant: the age is taken with the operands swapped, so no entry gets stale
CacheFreshSwapped(timestamp, t) == timestamp - t < cache_ttl

CacheFresh(timestamp, t) == t - timestamp < cache_ttl

\* DataSourceManager._get_from_cache: [value, cache]
_get_from_cache(c, k, t) ==
    IF c[k] # NoneRec
    THEN IF CacheFresh(c[k].timestamp, t)
         THEN [value |-> c[k].data, cache |-> c]
         ELSE [value |-> NoneRec, cache |-> [c EXCEPT ![k] = NoneRec]]
    ELSE [value |-> NoneRec, cache |-> c]

\* DataSourceManager._add_to_cache
_add_to_cache(c, k, d, t) == [c EXCEPT ![k] = [data |-> d, timestamp |-> t]]

\* where get_business_data goes after the Places step: the except clause logs
\* and continues with the default data (lines 157-161)
\* variant: a failed Places step is tried again
AfterPlacesRetrying(failed) == IF failed THEN "places" ELSE "competitors"

AfterPlaces(failed) == "competitors"

\* whether get_business_data consults the cache (line 133)
\* variant: the cache is consulted whatever force_refresh says
ReadsCacheAlways(force_refresh) == TRUE

ReadsCache(force_refresh) == ~force_refresh

\* get_business_data up to its first await (lines 130-147), entered with the
\* cache being c
EnterGetBusinessData(c, args) ==
    LET business_name == args.name
        business_type == args.type
        location == args.location
        force_refresh == args.force_refresh
        cache_key == _get_cache_key(business_name, "business_data")
        got == _get_from_cache(c, cache_key, now)
    IN /\ agArgs' = args
       /\ agCalls' = agCalls + 1
       /\ agSteps' = 0
       /\ agRequests' = 0
       /\ agFailed' = {}
       /\ agRaised' = None
       /\ IF ReadsCache(force_refresh)
          THEN /\ cache' = got.cache
               /\ IF got.value # NoneRec
                  THEN /\ agPc' = "done"
                       /\ agResult' = got.value
                       /\ agFromCache' = TRUE
                       /\ data' = NoneRec
                  ELSE /\ agPc' = "places"
                       /\ agResult' = NoneRec
                       /\ agFromCache' = FALSE
                       /\ data' = InitialData(business_name, business_type, location)
          ELSE /\ cache' = c
               /\ agPc' = "places"
               /\ agResult' = NoneRec
               /\ agFromCache' = FALSE
               /\ data' = InitialData(business_name, business_type, location)

\* a caller awaits get_business_data
GetBusinessData ==
    /\ agPc \in {"idle", "done"}
    /\ agCalls < AggMaxCalls
    /\ \E args \in CallArguments : EnterGetBusinessData(cache, args)
    /\ UNCHANGED <<now, google_places_key>>
    /\ UNCHANGED <<rlVars, rqVars, dcVars, rcVars, restVars>>

\* "First try Google Places API" (lines 149-159)
PlacesStep ==
    /\ agPc = "places"
    /\ \E o \in PlacesOracles :
         LET r == _get_places_data(google_places_key, o) IN
         /\ agRequests' = agRequests + r.requests
         /\ IF ~r.raised /\ r.value # NoneRec
            THEN data' = Update(data, r.value) /\ UNCHANGED agFailed
            ELSE UNCHANGED data /\ agFailed' = agFailed \cup {"places"}
    /\ agPc' = AfterPlaces("places" \in agFailed')
    /\ agSteps' = agSteps + 1
    /\ UNCHANGED <<now, google_places_key, cache, agArgs, agResult, agRaised,
                   agFromCache, agCalls>>
    /\ UNCHANGED <<rlVars, rqVars, dcVars, rcVars, restVars>>

\* "Then try to get competitor data" (lines 161-171)
CompetitorStep ==
    /\ agPc = "competitors"
    /\ \E o \in PlacesOracles, searchAnswer \in SearchAnswers, results \in SearchResults :
         LET r == _get_competitor_data(agArgs.name, google_places_key, o,
                                       searchAnswer, results) IN
         /\ agRequests' = agRequests + r.requests
         /\ IF r.value # <<>>
            THEN data' = [data EXCEPT !.competitors = r.value] /\ UNCHANGED agFailed
            ELSE UNCHANGED data /\ agFailed' = agFailed \cup {"competitors"}
    /\ agPc' = "market"
    /\ agSteps' = agSteps + 1
    /\ UNCHANGED <<now, google_places_key, cache, agArgs, agResult, agRaised,
                   agFromCache, agCalls>>
    /\ UNCHANGED <<rlVars, rqVars, dcVars, rcVars, restVars>>

\* "Get market data", "Cache the results" and the return (lines 173-187)
MarketStep ==
    /\ agPc = "market"
    /\ LET market_data == _get_market_data(agArgs.type)
           final == IF market_data # "{}"
                    THEN [data EXCEPT !.market_data = market_data] ELSE data
       IN /\ data' = final
          /\ agFailed' = IF market_data # "{}" THEN agFailed ELSE agFailed \cup {"market"}
          /\ cache' = _add_to_cache(cache, _get_cache_key(agArgs.name, "business_data"),
                                    final, now)
          /\ agResult' = final
    /\ agPc' = "done"
    /\ agSteps' = agSteps + 1
    /\ UNCHANGED <<now, google_places_key, agArgs, agRaised, agFromCache,
                   agRequests, agCalls>>
    /\ UNCHANGED <<rlVars, rqVars, dcVars, rcVars, restVars>>

\* time passes, also while a call awaits a provider
AggTick ==
    /\ \E d \in AggSteps : now + d <= AggMaxTime /\ now' = now + d
    /\ UNCHANGED <<rlVars, rqVars, agVars, dcVars, rcVars, restVars>>

\* DataSourceManager.__init__
AGInit ==
    /\ google_places_key \in BOOLEAN
    /\ cache = [k \in CacheKeys |-> NoneRec]
    /\ agPc = "idle"
    /\ agArgs = NoneRec
    /\ data = NoneRec
    /\ agResult = NoneRec
    /\ agRaised = None
    /\ agFromCache = FALSE
    /\ agSteps = 0
    /\ agRequests = 0
    /\ agFailed = {}
    /\ agCalls = 0

InitAgg == now = 0 /\ RLIdle /\ RQIdle /\ AGInit /\ DCIdle /\ RCIdle /\ RestIdle

NextAgg == GetBusinessData \/ PlacesStep \/ CompetitorStep \/ MarketStep \/ AggTick

SpecAgg == InitAgg /\ [][NextAgg]_vars

\* every awaited provider request ends (answer, error or client timeout), so
\* each step of a call in progress is eventually taken
FairSpecAgg ==
    SpecAgg /\ WF_vars(PlacesStep) /\ WF_vars(CompetitorStep) /\ WF_vars(MarketStep)

\* a step of the model that is the entry of a get_business_data call
CallStep == agCalls' = agCalls + 1

AllSteps == {"places", "competitors", "market"}

C5_BlankNameRejected ==
    (agPc = "done" /\ agArgs.name = "") => (agRaised = "ValueError" /\ agResult = NoneRec)

\* the most requests one call can send: Places (2), then for the competitors
\* Places again (2), the search (1) and a details request per listed place
MaxRequestsPerCall == 2 + (2 + 1 + TopResults)

C7_CacheTTL ==
    [][(CallStep /\ ~agArgs'.force_refresh
          /\ cache[_get_cache_key(agArgs'.name, "business_data")] # NoneRec)
        => LET e == cache[_get_cache_key(agArgs'.name, "business_data")] IN
           /\ (now < e.timestamp + cache_ttl)
                 => /\ agPc' = "done"
                    /\ agFromCache'
                    /\ agResult' = e.data
                    /\ agSteps' = 0 /\ agRequests' = 0
                    /\ cache' = cache
           /\ (now > e.timestamp + cache_ttl)
                 => /\ agPc' = "places"
                    /\ ~agFromCache'
                    /\ cache'[_get_cache_key(agArgs'.name, "business_data")] = NoneRec
      ]_vars

C7_Witness ==
    /\ agPc = "done"
    /\ agFromCache
    /\ agRequests = 0
    /\ now > cache[_get_cache_key(agArgs.name, "business_data")].timestamp
    /\ agResult = cache[_get_cache_key(agArgs.name, "business_data")].data

\* C9: a call is never answered with the record cached for another location.
C9_KeyedByLocation ==
    (agPc = "done" /\ agFromCache) => agResult.location = agArgs.location

\* C10: with force_refresh the cache is not read and the provider sequence
\* runs; on completion the entry of the key is the newly built record; without
\* force_refresh a live entry is returned unchanged.
C10_ForceRefresh ==
    [][/\ (CallStep /\ agArgs'.force_refresh)
             => (agPc' = "places" /\ ~agFromCache' /\ cache' = cache)
       /\ (agPc = "market" /\ agPc' = "done")
             => cache' = [cache EXCEPT ![_get_cache_key(agArgs.name, "business_data")] =
                                          [data |-> agResult', timestamp |-> now]]
       /\ (CallStep /\ ~agArgs'.force_refresh
             /\ cache[_get_cache_key(agArgs'.name, "business_data")] # NoneRec
             /\ CacheFresh(cache[_get_cache_key(agArgs'.name, "business_data")].timestamp, now))
             => /\ agResult' = cache[_get_cache_key(agArgs'.name, "business_data")].data
                /\ cache' = cache
      ]_vars

\* a forced second call on the same key has replaced the first call's entry
C10_Witness ==
    /\ agPc = "done"
    /\ agCalls = 2
    /\ agArgs.force_refresh
    /\ ~agFromCache
    /\ \A k \in CacheKeys : k # _get_cache_key(agArgs.name, "business_data") => cache[k] = NoneRec
    /\ cache[_get_cache_key(agArgs.name, "business_data")] = [data |-> agResult, timestamp |-> now]
    /\ now > 0

(***************************************************************************)
(* The in-memory TTL caches: DataCache (smeanalytica/shared/cache.py) and  *)
(* the data_cache of RestaurantDataFetcher.  A run constructs one of them. *)
(***************************************************************************)
\* self.cache_duration = timedelta(hours=24), in seconds
DefaultCacheDuration == 24 * 3600

\* bounds of the cache specification
DCMaxGets == 3
DCMaxTime == 30
DCSteps == {10}

\* the values stored, the TTLs a DataCache is built with and the durations
\* cache_duration is set to
Values == {"v1", "v2"}

TtlSeconds == {0, 10}

Durations == {0, 10}

\* callers of DataCache.set pass no ttl (NoneInt: ttl=None)
SetTtlArgs == {NoneInt}

\* variant: an entry counts as expired only once it is older than its expiry
\* by the longest TTL
_is_expired_late(timestamp, t) == t - timestamp > 10

\* DataCache._is_expired: (datetime.now() - timestamp).total_seconds() > 0
_is_expired(timestamp, t) == t - timestamp > 0

\* DataCache.initialize
DCInitialize ==
    /\ ttl_seconds # NoneInt
    /\ ~initialized
    /\ initialized' = TRUE
    /\ cleanupPc' = "ready"
    /\ UNCHANGED <<now, ttl_seconds, dcCache, hits, misses, expired_keys, wakeAt, dcGot, dcGets>>
    /\ UNCHANGED <<rlVars, rqVars, agVars, rcVars, restVars>>

\* DataCache.hit_rate, in hundredths
hit_rate(h, m) == IF h + m > 0 THEN (h * 100) \div (h + m) ELSE 0

\* variant: the lookup of an expired key evicts it without counting a miss
DataCacheGetExpiredUncounted(c, k, t, h, m) ==
    IF c[k] = NoneRec
    THEN [value |-> None, cache |-> c, hits |-> h, misses |-> m + 1]
    ELSE IF _is_expired(c[k].timestamp, t)
    THEN [value |-> None, cache |-> [c EXCEPT ![k] = NoneRec], hits |-> h, misses |-> m]
    ELSE [value |-> c[k].data, cache |-> c, hits |-> h + 1, misses |-> m]

\* DataCache.get: [value, cache, hits, misses]
DataCacheGet(c, k, t, h, m) ==
    IF c[k] = NoneRec
    THEN [value |-> None, cache |-> c, hits |-> h, misses |-> m + 1]
    ELSE IF _is_expired(c[k].timestamp, t)
    THEN [value |-> None, cache |-> [c EXCEPT ![k] = NoneRec], hits |-> h, misses |-> m + 1]
    ELSE [value |-> c[k].data, cache |-> c, hits |-> h + 1, misses |-> m]

DCGet ==
    /\ ttl_seconds # NoneInt
    /\ dcGets < DCMaxGets
    /\ \E key \in Keys :
         IF ~initialized
         THEN /\ dcGot' = [key |-> key, value |-> "RuntimeError", evicted |-> FALSE]
              /\ UNCHANGED <<dcCache, hits, misses, dcGets>>
         ELSE LET r == DataCacheGet(dcCache, key, now, hits, misses) IN
              /\ dcGot' = [key |-> key, value |-> r.value,
                            evicted |-> dcCache[key] # NoneRec /\ r.cache[key] = NoneRec]
              /\ dcCache' = r.cache
              /\ hits' = r.hits
              /\ misses' = r.misses
              /\ dcGets' = dcGets + 1
    /\ UNCHANGED <<now, initialized, ttl_seconds, cleanupPc, expired_keys, wakeAt>>
    /\ UNCHANGED <<rlVars, rqVars, agVars, rcVars, restVars>>

\* DataCache.set: the entry stores its expiry, datetime.now() + ttl
DataCacheSet(c, k, v, ttl, t) ==
    [c EXCEPT ![k] = [data |-> v,
                      timestamp |-> t + (IF ttl = NoneInt THEN ttl_seconds ELSE ttl)]]

DCSet ==
    /\ initialized
    /\ \E key \in Keys, value \in Values, ttl \in SetTtlArgs :
         dcCache' = DataCacheSet(dcCache, key, value, ttl, now)
    /\ UNCHANGED <<now, initialized, ttl_seconds, hits, misses, cleanupPc,
                   expired_keys, wakeAt, dcGot, dcGets>>
    /\ UNCHANGED <<rlVars, rqVars, agVars, rcVars, restVars>>

\* DataCache.invalidate
DCInvalidate ==
    /\ initialized
    /\ \E key \in Keys : dcCache' = [dcCache EXCEPT ![key] = NoneRec]
    /\ UNCHANGED <<now, initialized, ttl_seconds, hits, misses, cleanupPc,
                   expired_keys, wakeAt, dcGot, dcGets>>
    /\ UNCHANGED <<rlVars, rqVars, agVars, rcVars, restVars>>

\* DataCache.clear
DCClear ==
    /\ initialized
    /\ dcCache' = [k \in Keys |-> NoneRec]
    /\ hits' = 0
    /\ misses' = 0
    /\ dcGets' = 0
    /\ UNCHANGED <<now, initialized, ttl_seconds, cleanupPc, expired_keys, wakeAt, dcGot>>
    /\ UNCHANGED <<rlVars, rqVars, agVars, rcVars, restVars>>

\* variant: the scan also selects the entries that expire at this very reading
ExpiredKeysAtExpiry(c, t) == {k \in Keys : c[k] # NoneRec /\ t - c[k].timestamp >= 0}

\* the keys _periodic_cleanup selects (lines 118-122)
ExpiredKeys(c, t) == {k \in Keys : c[k] # NoneRec /\ t - c[k].timestamp > 0}

\* one round of DataCache._periodic_cleanup.  No coroutine holds the lock
\* across an await, so the scan and the invalidate calls run without a
\* yield; the task suspends in asyncio.sleep(self._ttl_seconds / 10).
PeriodicCleanup ==
    /\ initialized
    /\ cleanupPc = "ready" \/ (cleanupPc = "sleep" /\ now >= wakeAt)
    /\ expired_keys' = ExpiredKeys(dcCache, now)
    /\ dcCache' = [k \in Keys |-> IF k \in ExpiredKeys(dcCache, now) THEN NoneRec ELSE dcCache[k]]
    /\ cleanupPc' = "sleep"
    /\ wakeAt' = now + (ttl_seconds \div 10)
    /\ UNCHANGED <<now, initialized, ttl_seconds, hits, misses, dcGot, dcGets>>
    /\ UNCHANGED <<rlVars, rqVars, agVars, rcVars, restVars>>

\* DataCache.shutdown: cancel the cleanup task, clear, initialized = False
DCShutdown ==
    /\ initialized
    /\ cleanupPc' = "off"
    /\ dcCache' = [k \in Keys |-> NoneRec]
    /\ hits' = 0
    /\ misses' = 0
    /\ initialized' = FALSE
    /\ dcGets' = 0
    /\ UNCHANGED <<now, ttl_seconds, expired_keys, wakeAt, dcGot>>
    /\ UNCHANGED <<rlVars, rqVars, agVars, rcVars, restVars>>

\* the test of RestaurantDataFetcher._get_from_cache (line 326)
StillCached(timestamp, t, duration) == t - timestamp < duration

\* RestaurantDataFetcher._get_from_cache: [value, cache]
RestaurantGetFromCache(c, k, t, duration) ==
    IF c[k] # NoneRec
    THEN IF StillCached(c[k].timestamp, t, duration)
         THEN [value |-> c[k].data, cache |-> c]
         ELSE [value |-> None, cache |-> [c EXCEPT ![k] = NoneRec]]
    ELSE [value |-> None, cache |-> c]

RCGet ==
    /\ cache_duration # NoneInt
    /\ rcGets < DCMaxGets
    /\ \E key \in Keys :
         LET r == RestaurantGetFromCache(data_cache, key, now, cache_duration) IN
         /\ rcGot' = [key |-> key, value |-> r.value,
                       evicted |-> data_cache[key] # NoneRec /\ r.cache[key] = NoneRec]
         /\ data_cache' = r.cache
    /\ rcGets' = rcGets + 1
    /\ UNCHANGED <<now, cache_duration>>
    /\ UNCHANGED <<rlVars, rqVars, agVars, dcVars, restVars>>

\* RestaurantDataFetcher._save_to_cache
RCSave ==
    /\ cache_duration # NoneInt
    /\ \E key \in Keys, value \in Values :
         data_cache' = [data_cache EXCEPT ![key] = [data |-> value, timestamp |-> now]]
    /\ UNCHANGED <<now, cache_duration, rcGot, rcGets>>
    /\ UNCHANGED <<rlVars, rqVars, agVars, dcVars, restVars>>

\* fetcher.cache_duration = timedelta(seconds=...), as test_caching does
RCSetDuration ==
    /\ cache_duration # NoneInt
    /\ \E d \in Durations : cache_duration' = d
    /\ UNCHANGED <<now, data_cache, rcGot, rcGets>>
    /\ UNCHANGED <<rlVars, rqVars, agVars, dcVars, restVars>>

CacheTick ==
    /\ \E d \in DCSteps : now + d <= DCMaxTime /\ now' = now + d
    /\ UNCHANGED <<rlVars, rqVars, agVars, dcVars, rcVars, restVars>>

\* DataCache.__init__(ttl_seconds)
DCInit ==
    /\ initialized = FALSE
    /\ ttl_seconds \in TtlSeconds
    /\ dcCache = [k \in Keys |-> NoneRec]
    /\ hits = 0
    /\ misses = 0
    /\ cleanupPc = "off"
    /\ expired_keys = {}
    /\ wakeAt = 0
    /\ dcGot = NoneRec
    /\ dcGets = 0

\* RestaurantDataFetcher.__init__
RCInit ==
    /\ data_cache = [k \in Keys |-> NoneRec]
    /\ cache_duration = DefaultCacheDuration
    /\ rcGot = NoneRec
    /\ rcGets = 0

InitCache ==
    /\ now = 0
    /\ RLIdle /\ RQIdle /\ AGIdle
    /\ (DCInit /\ RCIdle) \/ (DCIdle /\ RCInit)
    /\ RestIdle

NextCache ==
    \/ DCInitialize \/ DCGet \/ DCSet \/ DCInvalidate \/ DCClear
    \/ PeriodicCleanup \/ DCShutdown
    \/ RCGet \/ RCSave \/ RCSetDuration
    \/ CacheTick

SpecCache == InitCache /\ [][NextCache]_vars

\* the steps that are a completed DataCache.get / a _get_from_cache call
DCGetStep == hits' + misses' = hits + misses + 1

RCGetStep == rcGets' = rcGets + 1

\* what a DataCache.get of an entry e at clock reading `now` has to do:
\* serve e while its expiry (e.timestamp) is not passed, else miss and evict
DCLookupRespectsExpiry ==
    DCGetStep =>
        LET e == dcCache[dcGot'.key] IN
        /\ e = NoneRec => dcGot'.value = None
        /\ (e # NoneRec /\ now > e.timestamp)
              => (dcGot'.value = None /\ dcCache'[dcGot'.key] = NoneRec)
        /\ (e # NoneRec /\ ~(now > e.timestamp))
              => (dcGot'.value = e.data /\ dcCache' = dcCache)

\* the same for RestaurantDataFetcher._get_from_cache, whose entries store
\* the time of the save
RCLookupRespectsExpiry ==
    RCGetStep =>
        LET e == data_cache[rcGot'.key] IN
        /\ e = NoneRec => rcGot'.value = None
        /\ (e # NoneRec /\ now - e.timestamp >= cache_duration)
              => (rcGot'.value = None /\ data_cache'[rcGot'.key] = NoneRec)
        /\ (e # NoneRec /\ now - e.timestamp < cache_duration)
              => (rcGot'.value = e.data /\ data_cache' = data_cache)

\* C8 as claimed: a lookup never returns an entry whose TTL has elapsed and
\* removes an expired entry it finds; with a cache duration of zero every
\* lookup of a previously saved key returns None, in each in-memory cache.
C8_AsClaimed ==
    [][/\ DCLookupRespectsExpiry
       /\ RCLookupRespectsExpiry
       /\ (DCGetStep /\ ttl_seconds = 0) => dcGot'.value = None
       /\ (RCGetStep /\ cache_duration = 0) => rcGot'.value = None
      ]_vars

\* C8, amended: a lookup never returns an entry past its expiry and removes
\* such an entry; with cache_duration zero every fetcher lookup returns
\* None, and with a zero TTL every DataCache lookup made at a later clock
\* reading than the save returns None (at the very reading of the save the
\* entry is still served).
C8_ExpiredNeverReturned ==
    [][/\ DCLookupRespectsExpiry
       /\ RCLookupRespectsExpiry
       /\ (DCGetStep /\ ttl_seconds = 0 /\ dcCache[dcGot'.key] # NoneRec
             /\ now > dcCache[dcGot'.key].timestamp - ttl_seconds)
             => dcGot'.value = None
       /\ (RCGetStep /\ cache_duration = 0) => rcGot'.value = None
      ]_vars

\* a DataCache lookup has found an expired entry, returned None and removed it
C8_Witness ==
    /\ initialized
    /\ ttl_seconds = 0
    /\ dcGot # NoneRec
    /\ dcGot.evicted
    /\ dcGot.value = None
    /\ misses > 0
    /\ dcCache[dcGot.key] = NoneRec

(***************************************************************************)
(* BusinessDataFetcher._combine_business_data (smeanalytica/shared): the   *)
(* merge of the TripAdvisor partial (processed first) with the Google      *)
(* Places partial (fills what is still falsy).                             *)
(***************************************************************************)
\* what a provider partial holds under each key; None / NoneInt: key absent.
\* The reviews key is absent when the list is empty.
PartialNames == {None, "A", "B"}

PartialRatings == {NoneInt, 0, 3, 4}

PartialCounts == {NoneInt, 7}

PartialPrices == {None, "$$"}

PartialAddresses == {None, "street"}

PartialReviews == {<<>>, <<"r1">>}

Partials ==
    [name : PartialNames, rating : PartialRatings, num_reviews : PartialCounts,
     total_ratings : PartialCounts, price_level : PartialPrices,
     address : PartialAddresses, reviews : PartialReviews]

\* the dict {} : no key present
EmptyPartial ==
    [name |-> None, rating |-> NoneInt, num_reviews |-> NoneInt,
     total_ratings |-> NoneInt, price_level |-> None, address |-> None,
     reviews |-> <<>>]

\* bool(d) of an optional dict: None and {} are falsy
TruthyDict(d) == d # NoneRec /\ d # EmptyPartial

\* dict.get(key, default) of a string-valued and of a number-valued key
GetStr(v, default) == IF v = None THEN default ELSE v

GetNum(v, default) == IF v = NoneInt THEN default ELSE v

\* the initial `combined` (lines 320-328)
EmptyCombined ==
    [name |-> "", rating |-> 0, total_ratings |-> 0, price_level |-> "",
     address |-> "", reviews |-> <<>>, sources |-> <<>>]

\* "Process TripAdvisor data" (lines 331-341)
ProcessTripAdvisor(c, ta) ==
    IF ~TruthyDict(ta) THEN c
    ELSE [name |-> GetStr(ta.name, c.name),
          rating |-> GetNum(ta.rating, 0),
          total_ratings |-> GetNum(ta.num_reviews, 0),
          price_level |-> GetStr(ta.price_level, ""),
          address |-> GetStr(ta.address, ""),
          reviews |-> ta.reviews,
          sources |-> Append(c.sources, "tripadvisor")]

\* "Process Google Places data" (lines 344-360): `if not combined[...]`
ProcessGooglePlaces(c, gp) ==
    IF ~TruthyDict(gp) THEN c
    ELSE [name |-> IF c.name = "" THEN GetStr(gp.name, "") ELSE c.name,
          rating |-> IF c.rating = 0 THEN GetNum(gp.rating, 0) ELSE c.rating,
          total_ratings |-> IF c.total_ratings = 0
                            THEN GetNum(gp.total_ratings, 0) ELSE c.total_ratings,
          price_level |-> IF c.price_level = ""
                          THEN GetStr(gp.price_level, "") ELSE c.price_level,
          address |-> IF c.address = "" THEN GetStr(gp.address, "") ELSE c.address,
          reviews |-> c.reviews \o gp.reviews,
          sources |-> Append(c.sources, "google_places")]

_combine_business_data(d) ==
    ProcessGooglePlaces(ProcessTripAdvisor(EmptyCombined, d.tripadvisor), d.google_places)

\* one call of _combine_business_data
CombineBusinessData ==
    /\ mergePc = "ready"
    /\ combined' = _combine_business_data(mergeData)
    /\ mergePc' = "done"
    /\ UNCHANGED <<now, mergeData>>
    /\ UNCHANGED <<rlVars, rqVars, agVars, dcVars, rcVars, exceptMergeVars>>

\* the caller passes any two partials, each possibly None
MergeInit ==
    /\ mergeData \in [tripadvisor : Partials \cup {NoneRec},
                      google_places : Partials \cup {NoneRec}]
    /\ combined = NoneRec
    /\ mergePc = "ready"

InitMerge ==
    /\ now = 0
    /\ RLIdle /\ RQIdle /\ AGIdle /\ DCIdle /\ RCIdle /\ ExceptMergeIdle
    /\ MergeInit

NextMerge == CombineBusinessData

SpecMerge == InitMerge /\ [][NextMerge]_vars

\* C11: a canonical field the higher-priority partial (TripAdvisor, merged
\* first) supplies is in the merged record with TripAdvisor's value, whatever
\* Google Places supplies and whatever the value is (rating 0 included).
C11_HigherPriorityKept ==
    (mergePc = "done" /\ TruthyDict(mergeData.tripadvisor))
        => LET ta == mergeData.tripadvisor IN
           /\ ta.name # None => combined.name = ta.name
           /\ ta.rating # NoneInt => combined.rating = ta.rating
           /\ ta.num_reviews # NoneInt => combined.total_ratings = ta.num_reviews
           /\ ta.price_level # None => combined.price_level = ta.price_level
           /\ ta.address # None => combined.address = ta.address

\* C12: when TripAdvisor supplies name and rating but no price level and
\* Google Places supplies the price level, the merged record has
\* TripAdvisor's name and rating, Google's price level and both sources.
C12_PriorityFillIn ==
    (/\ mergePc = "done"
     /\ TruthyDict(mergeData.tripadvisor) /\ TruthyDict(mergeData.google_places)
     /\ mergeData.tripadvisor.name # None
     /\ mergeData.tripadvisor.rating # NoneInt
     /\ mergeData.tripadvisor.price_level = None
     /\ mergeData.google_places.price_level # None)
        => /\ combined.name = mergeData.tripadvisor.name
           /\ combined.rating = mergeData.tripadvisor.rating
           /\ combined.price_level = mergeData.google_places.price_level
           /\ combined.sources = <<"tripadvisor", "google_places">>

\* the fields of a merged record other than its sources
MergedFields(c) ==
    [name |-> c.name, rating |-> c.rating, total_ratings |-> c.total_ratings,
     price_level |-> c.price_level, address |-> c.address, reviews |-> c.reviews]

\* C13: merging a partial A supplied by both providers gives the same scalar
\* fields and the same reviews as merging A alone.
C13_MergeIdempotent ==
    (/\ mergePc = "done"
     /\ TruthyDict(mergeData.tripadvisor)
     /\ mergeData.google_places = mergeData.tripadvisor)
        => MergedFields(combined)
             = MergedFields(_combine_business_data(
                   [tripadvisor |-> mergeData.tripadvisor, google_places |-> NoneRec]))

(***************************************************************************)
(* DataSourceManager.get_competitors: the competitors of the providers,    *)
(* concatenated, de-duplicated and sorted.                                 *)
(***************************************************************************)
\* bound of the get_competitors specification
GCMaxCalls == 2

\* the calls made: without and with a location
GCArguments ==
    {[name |-> "A", location |-> None], [name |-> "A", location |-> "L1"]}

\* places of a places:searchText answer; None / NoneInt: field absent.
\* priceLevel is the API's enum string, or a numeric string.
GooglePlaces ==
    {[displayName |-> "Cafe Luz", rating |-> 4, userRatingCount |-> 5, priceLevel |-> None],
     [displayName |-> "Cafe Luz", rating |-> 4, userRatingCount |-> 5, priceLevel |-> "2"],
     [displayName |-> "cafe luz", rating |-> 3, userRatingCount |-> 9, priceLevel |-> "2"],
     [displayName |-> "Cafe  Luz", rating |-> 4, userRatingCount |-> 9, priceLevel |-> "2"],
     [displayName |-> "A", rating |-> 4, userRatingCount |-> 5, priceLevel |-> "1"],
     [displayName |-> None, rating |-> NoneInt, userRatingCount |-> NoneInt,
      priceLevel |-> "PRICE_LEVEL_MODERATE"]}

\* the answers to the search: a failure, or up to two places
GoogleCompetitorAnswers ==
    {[status |-> "error", places |-> <<>>], [status |-> "ok", places |-> <<>>]}
    \cup {[status |-> "ok", places |-> <<p>>] : p \in GooglePlaces}
    \cup {[status |-> "ok", places |-> <<p, q>>] : p \in GooglePlaces, q \in GooglePlaces}

\* the competitor dict built for a place (lines 906-913)
ParsePlace(place) ==
    [name |-> GetStr(place.displayName, ""),
     rating |-> GetNum(place.rating, 0),
     review_count |-> GetNum(place.userRatingCount, 0),
     price_level |-> GetStr(place.priceLevel, "PRICE_LEVEL_UNSPECIFIED"),
     source |-> "google"]

\* DataSourceManager._get_competitors_from_google: [raised, value]
_get_competitors_from_google(answer) ==
    IF answer.status # "ok" THEN [raised |-> TRUE, value |-> <<>>]
    ELSE [raised |-> FALSE,
          value |-> [i \in 1..Len(answer.places) |-> ParsePlace(answer.places[i])]]

\* float(s) of a string: the number, or NoneInt for a ValueError
Float(s) == CASE s = "1" -> 1 [] s = "2" -> 2 [] OTHER -> NoneInt

\* "Remove duplicates based on business name" (lines 671-678)
RECURSIVE RemoveDuplicates(_, _)
RemoveDuplicates(cs, seen_names) ==
    IF cs = <<>> THEN <<>>
    ELSE LET name == Lower(Head(cs).name) IN
         IF name # "" /\ name \notin seen_names
         THEN <<Head(cs)>> \o RemoveDuplicates(Tail(cs), seen_names \cup {name})
         ELSE RemoveDuplicates(Tail(cs), seen_names)

\* the sort key (lines 682-685) and the order of two keys
SortKey(x) == <<x.rating, 0 - Float(x.price_level)>>

KeyLess(k1, k2) == k1[1] < k2[1] \/ (k1[1] = k2[1] /\ k1[2] < k2[2])

\* computing a key raises ValueError for a price_level that is no number
SortRaises(cs) == \E i \in 1..Len(cs) : Float(cs[i].price_level) = NoneInt

\* list.sort(key=..., reverse=True): descending, equal keys keep their order
RECURSIVE InsertByKey(_, _)
InsertByKey(x, sorted) ==
    IF sorted = <<>> THEN <<x>>
    ELSE IF KeyLess(SortKey(Head(sorted)), SortKey(x))
         THEN <<x>> \o sorted
         ELSE <<Head(sorted)>> \o InsertByKey(x, Tail(sorted))

RECURSIVE SortCompetitors(_)
SortCompetitors(cs) ==
    IF cs = <<>> THEN <<>>
    ELSE InsertByKey(cs[Len(cs)], SortCompetitors(SubSeq(cs, 1, Len(cs) - 1)))

\* lines 670-694: de-duplicate, sort, cache and return; a ValueError of the
\* sort reaches the outer except, which returns [] and caches nothing
FinishCompetitors(c, key, competitors, t) ==
    LET unique_competitors == RemoveDuplicates(competitors, {}) IN
    IF SortRaises(unique_competitors)
    THEN [result |-> <<>>, error |-> "ValueError", cache |-> c]
    ELSE [result |-> SortCompetitors(unique_competitors), error |-> None,
          cache |-> _add_to_cache(c, key, SortCompetitors(unique_competitors), t)]

\* get_competitors up to its first await (lines 640-652)
GetCompetitors ==
    /\ gcPc \in {"idle", "done"}
    /\ agPc \in {"idle", "done"}
    /\ gcCalls < GCMaxCalls
    /\ \E args \in GCArguments :
         LET cache_key == _get_cache_key(args.name, "competitors")
             got == _get_from_cache(cache, cache_key, now)
             cached == cache[cache_key] # NoneRec
                         /\ CacheFresh(cache[cache_key].timestamp, now)
                         /\ cache[cache_key].data # <<>>
         IN /\ gcArgs' = args
            /\ gcCalls' = gcCalls + 1
            /\ gcCompetitors' = <<>>
            /\ gcProvided' = <<>>
            /\ gcError' = None
            /\ gcFromCache' = cached
            /\ IF cached
               THEN /\ gcResult' = cache[cache_key].data
                    /\ gcPc' = "done"
                    /\ UNCHANGED agVars
               ELSE /\ gcResult' = NoneRec
                    /\ IF args.location = None
                       THEN /\ gcPc' = "business_data"
                            /\ EnterGetBusinessData(got.cache,
                                   [name |-> args.name, type |-> None,
                                    location |-> None, force_refresh |-> FALSE])
                            /\ UNCHANGED google_places_key
                       ELSE /\ gcPc' = "google"
                            /\ cache' = got.cache
                            /\ UNCHANGED <<google_places_key, agPc, agArgs, data, agResult,
                                           agRaised, agFromCache, agSteps, agRequests,
                                           agFailed, agCalls>>
    /\ UNCHANGED now
    /\ UNCHANGED <<rlVars, rqVars, dcVars, rcVars, exceptGcVars>>

\* line 650: business_data['location'] is the location argument of
\* get_business_data, None or a str, so .get('formatted_address', '') raises
\* AttributeError; the outer except returns []
GCAfterBusinessData ==
    /\ gcPc = "business_data"
    /\ agPc = "done"
    /\ gcError' = "AttributeError"
    /\ gcResult' = <<>>
    /\ gcPc' = "done"
    /\ UNCHANGED <<now, gcArgs, gcCompetitors, gcProvided, gcFromCache, gcCalls>>
    /\ UNCHANGED <<rlVars, rqVars, agVars, dcVars, rcVars, exceptGcVars>>

\* "Get competitors from Google Places" (lines 654-659)
GCGoogle ==
    /\ gcPc = "google"
    /\ IF ~google_places_key
       THEN UNCHANGED <<gcCompetitors, gcProvided>>
       ELSE \E answer \in GoogleCompetitorAnswers :
              LET r == _get_competitors_from_google(answer) IN
              /\ gcCompetitors' = gcCompetitors \o r.value
              /\ gcProvided' = gcProvided \o r.value
    /\ gcPc' = "yelp"
    /\ UNCHANGED <<now, gcArgs, gcResult, gcError, gcFromCache, gcCalls>>
    /\ UNCHANGED <<rlVars, rqVars, agVars, dcVars, rcVars, exceptGcVars>>

\* "Get competitors from Yelp" (lines 661-669): YelpAdapter has no
\* get_competitors, the AttributeError is logged; then lines 670-694
GCYelp ==
    /\ gcPc = "yelp"
    /\ LET f == FinishCompetitors(cache, _get_cache_key(gcArgs.name, "competitors"),
                                  gcCompetitors, now)
       IN /\ gcResult' = f.result
          /\ gcError' = f.error
          /\ cache' = f.cache
    /\ gcPc' = "done"
    /\ UNCHANGED <<now, gcArgs, gcCompetitors, gcProvided, gcFromCache, gcCalls>>
    /\ UNCHANGED <<google_places_key, agPc, agArgs, data, agResult, agRaised,
                   agFromCache, agSteps, agRequests, agFailed, agCalls>>
    /\ UNCHANGED <<rlVars, rqVars, dcVars, rcVars, exceptGcVars>>

InitCompetitors ==
    /\ now = 0
    /\ RLIdle /\ RQIdle /\ AGInit /\ DCIdle /\ RCIdle /\ RestIdle

NextCompetitors ==
    \/ GetCompetitors \/ GCAfterBusinessData \/ GCGoogle \/ GCYelp
    \/ PlacesStep \/ CompetitorStep \/ MarketStep
    \/ AggTick

SpecCompetitors == InitCompetitors /\ [][NextCompetitors]_vars

\* the normalized name of the claims: lower case, runs of blanks collapsed
NormalizedName(name) ==
    IF Lower(name) = "cafe  luz" THEN "cafe luz" ELSE Lower(name)

\* the entries of a list whose normalized name is n
EntriesNamed(cs, n) == {i \in 1..Len(cs) : NormalizedName(cs[i].name) = n}

\* C14: when the providers returned the same competitor more than once,
\* under names differing only in case or spacing, the list get_competitors
\* returns holds exactly one entry for it.
C14_OneEntryPerCompetitor ==
    (/\ gcPc = "done" /\ ~gcFromCache /\ gcArgs.location # None
     /\ Cardinality(EntriesNamed(gcProvided, "cafe luz")) >= 2)
        => Cardinality(EntriesNamed(gcResult, "cafe luz")) = 1

\* C15: the competitors of a record get_business_data returned for a named
\* business hold no entry whose normalized name is the target's.
C15_NoSelfMatch ==
    (agPc = "done" /\ agResult # NoneRec /\ agArgs.name # "")
        => EntriesNamed(agResult.competitors, NormalizedName(agArgs.name)) = {}

\* the order the claims give: rating descending, then rating count descending
RankedBefore(x, y) ==
    x.rating > y.rating \/ (x.rating = y.rating /\ x.review_count >= y.review_count)

\* C16: the list get_competitors returns holds one entry for each named
\* competitor the providers returned, sorted by rating descending and then
\* by rating count descending.
C16_ConcatDedupSorted ==
    (gcPc = "done" /\ ~gcFromCache /\ gcArgs.location # None)
        => /\ {NormalizedName(gcResult[i].name) : i \in 1..Len(gcResult)}
                = {NormalizedName(gcProvided[i].name) : i \in 1..Len(gcProvided)} \ {""}
           /\ \A i, j \in 1..Len(gcResult) :
                 /\ (i # j) => NormalizedName(gcResult[i].name) # NormalizedName(gcResult[j].name)
                 /\ (i < j) => RankedBefore(gcResult[i], gcResult[j])

\* ---------------------------------------------------------------------------
\* DataSourceManager.get_reviews
\* (src/smeanalytica/core/data/data_source_manager.py, lines 580-636)
\* ---------------------------------------------------------------------------

GRMaxCalls == 2

\* limit: int = 50
DefaultLimit == 50

GRArguments ==
    {[business_name |-> "A", limit |-> l] : l \in {1, 2, DefaultLimit}}

\* a value of 'time_created': an int (Google's 'time', seconds since the
\* epoch) or a str (a date text; v is its rank in string order, '' is rank 0)
IntTime(v) == [type |-> "int", v |-> v]

StrTime(v) == [type |-> "str", v |-> v]

\* an awaited provider call raised / returned value
Raised == [raised |-> TRUE, value |-> <<>>]

Returned(value) == [raised |-> FALSE, value |-> value]

\* the 'reviews' of the record _get_places_data returns (lines 246-255):
\* 'time_created': review.get('time', '')
PlacesReviews ==
    {<<>>,
     <<[source |-> "google", user |-> "g1", time_created |-> IntTime(100)]>>,
     <<[source |-> "google", user |-> "g1", time_created |-> IntTime(100)],
       [source |-> "google", user |-> "g2", time_created |-> IntTime(200)]>>,
     <<[source |-> "google", user |-> "g3", time_created |-> StrTime(0)]>>}

\* the outcomes of _get_places_data: it raises, returns None (value <<>>
\* stands for it: no record, or a record without reviews), or a record
PlacesReviewAnswers == {Raised} \cup {Returned(rs) : rs \in PlacesReviews}

\* _get_reviews_from_yelp returns the API's review objects as they are
\* (line 835); their 'time_created' is a date text
YelpReviewAnswers ==
    {Raised, Returned(<<>>),
     Returned(<<[source |-> None, user |-> "y1", time_created |-> StrTime(2)]>>),
     Returned(<<[source |-> None, user |-> "y1", time_created |-> StrTime(2)],
                [source |-> None, user |-> "y2", time_created |-> StrTime(1)]>>)}

\* _get_reviews_from_tripadvisor (lines 964-970):
\* 'time_created': review.get('publishedDate', '')
TripAdvisorReviewAnswers ==
    {Raised, Returned(<<>>),
     Returned(<<[source |-> "tripadvisor", user |-> "t1", time_created |-> StrTime(3)]>>),
     Returned(<<[source |-> "tripadvisor", user |-> "t2", time_created |-> StrTime(0)]>>)}

\* `if len(all_reviews) < limit:` (lines 601, 610)
\* variant: the next provider is tried only while no provider has failed
TryNextUnlessFailed(reviews, limit, errs) == Len(reviews) < limit /\ errs = <<>>

TryNext(reviews, limit, errs) == Len(reviews) < limit

\* the placeholder of lines 619-627; time.strftime gives a str
DefaultReview == [source |-> "default", user |-> "System", time_created |-> StrTime(9)]

\* list.sort compares the keys of neighbours with <: an int against a str
\* raises TypeError
ReviewSortRaises(reviews) ==
    \E i, j \in 1..Len(reviews) : reviews[i].time_created.type # reviews[j].time_created.type

\* x inserted into a list sorted by time_created descending, after the
\* entries with the same key (the sort is stable, also with reverse=True)
RECURSIVE InsertReview(_, _)
InsertReview(sorted, x) ==
    IF sorted = <<>> THEN <<x>>
    ELSE IF Head(sorted).time_created.v >= x.time_created.v
         THEN <<Head(sorted)>> \o InsertReview(Tail(sorted), x)
         ELSE <<x>> \o sorted

\* all_reviews.sort(key=lambda x: x.get('time_created', ''), reverse=True)
RECURSIVE SortReviews(_)
SortReviews(reviews) ==
    IF reviews = <<>> THEN <<>>
    ELSE InsertReview(SortReviews(SubSeq(reviews, 1, Len(reviews) - 1)),
                      reviews[Len(reviews)])

\* variant: the placeholder is cached like any other result
FinishReviewsCachingDefault(c, key, reviews, limit, t) ==
    IF reviews = <<>>
    THEN [result |-> <<DefaultReview>>, raised |-> None,
          cache |-> _add_to_cache(c, key, <<DefaultReview>>, t)]
    ELSE IF ReviewSortRaises(reviews)
         THEN [result |-> <<>>, raised |-> "TypeError", cache |-> c]
         ELSE LET cut == SubSeq(SortReviews(reviews), 1, Min(limit, Len(reviews))) IN
              [result |-> cut, raised |-> None, cache |-> _add_to_cache(c, key, cut, t)]

\* lines 618-636: the placeholder, or sort, cut, cache and return
FinishReviews(c, key, reviews, limit, t) ==
    IF reviews = <<>>
    THEN [result |-> <<DefaultReview>>, raised |-> None, cache |-> c]
    ELSE IF ReviewSortRaises(reviews)
         THEN [result |-> <<>>, raised |-> "TypeError", cache |-> c]
         ELSE LET cut == SubSeq(SortReviews(reviews), 1, Min(limit, Len(reviews))) IN
              [result |-> cut, raised |-> None, cache |-> _add_to_cache(c, key, cut, t)]

\* what follows a provider's step: the next provider's step when more reviews
\* are wanted, otherwise the rest of the method
AfterProvider(next, reviews, errs) ==
    /\ all_reviews' = reviews
    /\ errors' = errs
    /\ IF next # None /\ TryNext(reviews, grArgs.limit, errs)
       THEN /\ grPc' = next
            /\ UNCHANGED <<cache, grResult, grRaised>>
       ELSE LET f == FinishReviews(cache, _get_cache_key(grArgs.business_name, "reviews"),
                                   reviews, grArgs.limit, now)
            IN /\ cache' = f.cache
               /\ grResult' = f.result
               /\ grRaised' = f.raised
               /\ grPc' = IF f.raised = None THEN "done" ELSE "raised"

\* get_reviews up to its first await (lines 582-592); the caller modelled
\* calls either get_reviews or get_business_data
GetReviews ==
    /\ grPc \in {"idle", "done", "raised"}
    /\ agCalls = 0
    /\ grCalls < GRMaxCalls
    /\ \E args \in GRArguments :
         LET cache_key == _get_cache_key(args.business_name, "reviews")
             got == _get_from_cache(cache, cache_key, now)
             cached == cache[cache_key] # NoneRec
                         /\ CacheFresh(cache[cache_key].timestamp, now)
                         /\ cache[cache_key].data # <<>>
         IN /\ grArgs' = args
            /\ grCalls' = grCalls + 1
            /\ all_reviews' = <<>>
            /\ errors' = <<>>
            /\ grRaised' = None
            /\ grFromCache' = cached
            /\ grLog' = [p \in {"google", "yelp", "tripadvisor"} |->
                            [queried |-> FALSE, before |-> 0]]
            /\ cache' = got.cache
            /\ grResult' = IF cached THEN cache[cache_key].data ELSE <<>>
            /\ grPc' = IF cached THEN "done" ELSE "google"
    /\ UNCHANGED <<now, google_places_key, agPc, agArgs, data, agResult, agRaised,
                   agFromCache, agSteps, agRequests, agFailed, agCalls>>
    /\ UNCHANGED <<rlVars, rqVars, dcVars, rcVars, exceptGrVars>>

\* "Try Google Places first" (lines 593-599); without a key
\* _get_places_data raises ValueError (lines 204-205)
GRGoogle ==
    /\ grPc = "google"
    /\ \E answer \in PlacesReviewAnswers :
         /\ google_places_key \/ answer = Raised
         /\ LET reviews == all_reviews \o answer.value
                errs == IF answer.raised THEN Append(errors, "google_places") ELSE errors
            IN /\ AfterProvider("yelp", reviews, errs)
               /\ grLog' = [grLog EXCEPT !["google"] = [queried |-> TRUE, before |-> 0],
                                         !["yelp"].before = Len(reviews),
                                         !["tripadvisor"].before = Len(reviews)]
    /\ UNCHANGED <<now, google_places_key, agPc, agArgs, data, agResult, agRaised,
                   agFromCache, agSteps, agRequests, agFailed, agCalls>>
    /\ UNCHANGED <<grArgs, grFromCache, grCalls>>
    /\ UNCHANGED <<rlVars, rqVars, dcVars, rcVars, exceptGrVars>>

\* "If we don't have enough reviews, try Yelp" (lines 601-608)
GRYelp ==
    /\ grPc = "yelp"
    /\ \E answer \in YelpReviewAnswers :
         LET reviews == all_reviews \o answer.value
             errs == IF answer.raised THEN Append(errors, "yelp") ELSE errors
         IN /\ AfterProvider("tripadvisor", reviews, errs)
            /\ grLog' = [grLog EXCEPT !["yelp"].queried = TRUE,
                                      !["tripadvisor"].before = Len(reviews)]
    /\ UNCHANGED <<now, google_places_key, agPc, agArgs, data, agResult, agRaised,
                   agFromCache, agSteps, agRequests, agFailed, agCalls>>
    /\ UNCHANGED <<grArgs, grFromCache, grCalls>>
    /\ UNCHANGED <<rlVars, rqVars, dcVars, rcVars, exceptGrVars>>

\* "If still not enough, try TripAdvisor" (lines 610-616), then lines 618-636
GRTripAdvisor ==
    /\ grPc = "tripadvisor"
    /\ \E answer \in TripAdvisorReviewAnswers :
         LET reviews == all_reviews \o answer.value
             errs == IF answer.raised THEN Append(errors, "tripadvisor") ELSE errors
         IN /\ AfterProvider(None, reviews, errs)
            /\ grLog' = [grLog EXCEPT !["tripadvisor"].queried = TRUE]
    /\ UNCHANGED <<now, google_places_key, agPc, agArgs, data, agResult, agRaised,
                   agFromCache, agSteps, agRequests, agFailed, agCalls>>
    /\ UNCHANGED <<grArgs, grFromCache, grCalls>>
    /\ UNCHANGED <<rlVars, rqVars, dcVars, rcVars, exceptGrVars>>

\* the caller awaits get_business_data instead
BusinessDataCall == grCalls = 0 /\ GetBusinessData

InitReviews == now = 0 /\ RLIdle /\ RQIdle /\ AGInit /\ DCIdle /\ RCIdle /\ RestIdle

NextReviews ==
    \/ GetReviews \/ GRGoogle \/ GRYelp \/ GRTripAdvisor
    \/ BusinessDataCall \/ PlacesStep \/ CompetitorStep \/ MarketStep \/ AggTick

SpecReviews == InitReviews /\ [][NextReviews]_vars

\* C19: get_reviews never raises, and what a finished call returned is a
\* list with at least one review.
C19_ReviewsTotal ==
    /\ grRaised = None
    /\ grPc = "done" => grResult # <<>>

\* C20: a provider that fails does not end the sequence of providers. In
\* get_reviews Google is always queried, and Yelp and TripAdvisor are queried
\* whenever fewer reviews than the limit had been collected before their turn,
\* whichever providers failed; in get_business_data a failed Places step is
\* followed by the competitor step and the market-data step.
C20_FailureDoesNotAbort ==
    /\ (grPc \in {"done", "raised"} /\ ~grFromCache)
          => /\ grLog["google"].queried
             /\ \A p \in {"yelp", "tripadvisor"} :
                   grLog[p].before < grArgs.limit => grLog[p].queried
    /\ ("places" \in agFailed /\ ~agFromCache)
          => /\ agPc \in {"competitors", "market", "done"}
             /\ agPc = "done" => agSteps = 3

\* Google and Yelp failed, TripAdvisor was still queried and its review is
\* what the call returned
C20_Witness ==
    /\ grPc = "done"
    /\ errors = <<"google_places", "yelp">>
    /\ grLog["tripadvisor"].queried
    /\ Len(grResult) = 1 /\ grResult[1].source = "tripadvisor"

\* ---------------------------------------------------------------------------
\* Candidate matching: get_restaurant_details (src/shared/data_fetchers.py,
\* lines 35-116) and AttractionDataFetcher._parse_business_data
\* (src/shared/attraction_data_fetcher.py, lines 35-78)
\* ---------------------------------------------------------------------------

MaxCandidates == 2

\* names are sequences of letters; "A" is the capital of "a"
CandidateNames == {<<"a">>, <<"A">>, <<"a", "b">>, <<"b", "A">>, <<"c">>}

QueryNames == {<<"a">>, <<"A">>, <<"b", "a">>, <<"c", "c">>}

CandidateLists ==
    UNION {[1..n -> CandidateNames] : n \in 0..MaxCandidates}

\* str.lower
lower(s) == [i \in 1..Len(s) |-> IF s[i] = "A" THEN "a" ELSE s[i]]

\* `t in s` for strings
Contains(s, t) ==
    \E i \in 1..(Len(s) - Len(t) + 1) : SubSeq(s, i, i + Len(t) - 1) = t

\* the test of the loop (data_fetchers.py lines 80-82,
\* attraction_data_fetcher.py lines 46-48)
Matches(name, query) ==
    LET restaurant_name == lower(name)
        search_name == lower(query)
    IN \/ restaurant_name = search_name
       \/ Contains(restaurant_name, search_name)
       \/ Contains(search_name, restaurant_name)

\* the loop with its break: the index of the first candidate passing the
\* test, 0 when none passes
FirstMatch(candidates, query) ==
    IF \E i \in 1..Len(candidates) : Matches(candidates[i], query)
    THEN CHOOSE i \in 1..Len(candidates) :
            /\ Matches(candidates[i], query)
            /\ \A j \in 1..(i - 1) : ~Matches(candidates[j], query)
    ELSE 0

\* the candidate chosen from a non-empty list: the first match, else the
\* first candidate ("Using closest match")
ChooseTarget(candidates, query) ==
    IF FirstMatch(candidates, query) # 0 THEN FirstMatch(candidates, query) ELSE 1

\* the search attempts of get_restaurant_details: the attempts before k get no
\* answer or no restaurants and `continue`, attempt k is answered with the
\* candidates; k = 5: no attempt is answered and None is returned
SearchAttempts == 1..5

GetRestaurantDetails ==
    /\ mtPc = "restaurant"
    /\ \E k \in SearchAttempts :
         IF k <= 4 /\ mtCandidates # <<>>
         THEN /\ mtAttempt' = k
              /\ mtTarget' = ChooseTarget(mtCandidates, mtQuery)
              /\ mtClosest' = (FirstMatch(mtCandidates, mtQuery) = 0)
         ELSE /\ mtAttempt' = 0
              /\ mtTarget' = 0
              /\ mtClosest' = FALSE
    /\ mtPc' = "done"
    /\ UNCHANGED <<mtQuery, mtCandidates>>
    /\ UNCHANGED <<now, rlVars, rqVars, agVars, dcVars, rcVars, exceptMatchVars>>

\* AttractionDataFetcher._parse_business_data: the default response for an
\* empty list
ParseBusinessData ==
    /\ mtPc = "attraction"
    /\ IF mtCandidates # <<>>
       THEN /\ mtAttempt' = 1
            /\ mtTarget' = ChooseTarget(mtCandidates, mtQuery)
            /\ mtClosest' = (FirstMatch(mtCandidates, mtQuery) = 0)
       ELSE /\ mtAttempt' = 0
            /\ mtTarget' = 0
            /\ mtClosest' = FALSE
    /\ mtPc' = "done"
    /\ UNCHANGED <<mtQuery, mtCandidates>>
    /\ UNCHANGED <<now, rlVars, rqVars, agVars, dcVars, rcVars, exceptMatchVars>>

InitMatch ==
    /\ now = 0 /\ RLIdle /\ RQIdle /\ AGIdle /\ DCIdle /\ RCIdle /\ ExceptMatchIdle
    /\ mtPc \in {"restaurant", "attraction"}
    /\ mtQuery \in QueryNames
    /\ mtCandidates \in CandidateLists
    /\ mtAttempt = 0
    /\ mtTarget = 0
    /\ mtClosest = FALSE

NextMatch == GetRestaurantDetails \/ ParseBusinessData

SpecMatch == InitMatch /\ [][NextMatch]_vars

ExactMatch(name, query) == lower(name) = lower(query)

ContainsMatch(name, query) ==
    Contains(lower(name), lower(query)) \/ Contains(lower(query), lower(name))

\* C17: when candidates were answered, one of them is chosen: one whose name
\* equals the query case-insensitively if there is such a candidate; else
\* one whose name contains the query or is contained in it if there is such
\* a candidate; else the first.
C17_ThreeTierMatch ==
    (mtPc = "done" /\ mtAttempt # 0) =>
        LET n == Len(mtCandidates)
            exact == {i \in 1..n : ExactMatch(mtCandidates[i], mtQuery)}
            partial == {i \in 1..n : ContainsMatch(mtCandidates[i], mtQuery)}
        IN /\ mtTarget \in 1..n
           /\ IF exact # {} THEN mtTarget \in exact
              ELSE IF partial # {} THEN mtTarget \in partial
              ELSE mtTarget = 1

\* ---------------------------------------------------------------------------
\* RestaurantDataFetcher.get_business_details
\* (src/shared/restaurant_data_fetcher.py). The class body defines the method
\* twice, at line 38 and at line 60; the second definition replaces the
\* first, so the method of the class is the one of lines 60-95.
\* ---------------------------------------------------------------------------

BDMaxCalls == 2

\* the depth of nested get_business_details calls at which the interpreter
\* raises RecursionError
RecursionLimit == 3

BDNames == {"A", "la riua"}

\* the records get_business_data_from_google builds (lines 254-316): the
\* verified record for "la riua", else a record from the first place found,
\* absent fields replaced by defaults, or {} (no place, or an exception).
\* None of them has a 'source' key.
GoogleRecords(name) ==
    IF name = "la riua"
    THEN {[name |-> "La Riua", rating |-> 4, price_level |-> "EE-EEE",
           cuisine |-> "spanish", source |-> None]}
    ELSE {NoneRec,
          [name |-> name, rating |-> 4, price_level |-> "MODERATE",
           cuisine |-> "restaurant", source |-> None],
          [name |-> name, rating |-> 0, price_level |-> "UNSPECIFIED",
           cuisine |-> "", source |-> None]}

\* _get_tripadvisor_data (lines 335-345): {} or the parsed record with
\* 'source': 'tripadvisor'
TripAdvisorRecords ==
    {NoneRec,
     [name |-> "A", rating |-> 4, price_level |-> "EE-EEE", cuisine |-> "spanish",
      source |-> "tripadvisor"]}

\* a caller calls get_business_details
GetBusinessDetails ==
    /\ bdPc \in {"idle", "raised"}
    /\ bdCalls < BDMaxCalls
    /\ bdName' \in BDNames
    /\ bdTripAdvisor' \in TripAdvisorRecords
    /\ bdGoogle' = NoneRec
    /\ bdStack' = <<>>
    /\ bdResult' = NoneRec
    /\ bdRaised' = None
    /\ bdCalls' = bdCalls + 1
    /\ bdPc' = "google"
    /\ UNCHANGED <<now, rlVars, rqVars, agVars, dcVars, rcVars, exceptBdVars>>

\* lines 63-69: get_business_data_from_google; without data ValueError is
\* raised, logged and raised again (lines 92-94); with data get_reviews
\* follows, which catches every exception (lines 130-249)
BDGoogle ==
    /\ bdPc = "google"
    /\ \E business_data \in GoogleRecords(bdName) :
         /\ bdGoogle' = IF bdStack = <<>> THEN business_data ELSE bdGoogle
         /\ IF business_data = NoneRec
            THEN /\ bdRaised' = "ValueError"
                 /\ bdPc' = IF bdStack = <<>> THEN "raised" ELSE "unwind"
                 /\ UNCHANGED bdStack
            ELSE /\ bdStack' = Append(bdStack, business_data)
                 /\ bdPc' = "historical"
                 /\ UNCHANGED bdRaised
    /\ UNCHANGED <<bdName, bdTripAdvisor, bdResult, bdCalls>>
    /\ UNCHANGED <<now, rlVars, rqVars, agVars, dcVars, rcVars, exceptBdVars>>

\* line 72 and get_historical_data line 518: get_historical_data calls
\* self.get_business_details(business_name) again
BDHistorical ==
    /\ bdPc = "historical"
    /\ IF Len(bdStack) < RecursionLimit
       THEN bdPc' = "google" /\ UNCHANGED bdRaised
       ELSE bdPc' = "unwind" /\ bdRaised' = "RecursionError"
    /\ UNCHANGED <<bdName, bdTripAdvisor, bdGoogle, bdStack, bdResult, bdCalls>>
    /\ UNCHANGED <<now, rlVars, rqVars, agVars, dcVars, rcVars, exceptBdVars>>

\* an exception leaves a nested call: get_historical_data wraps it (lines
\* 565-566), get_business_details of the frame below logs it and raises it
\* again (lines 92-94)
BDUnwind ==
    /\ bdPc = "unwind"
    /\ bdStack # <<>>
    /\ bdStack' = SubSeq(bdStack, 1, Len(bdStack) - 1)
    /\ bdRaised' = "Exception"
    /\ bdPc' = IF Len(bdStack) = 1 THEN "raised" ELSE "unwind"
    /\ UNCHANGED <<bdName, bdTripAdvisor, bdGoogle, bdResult, bdCalls>>
    /\ UNCHANGED <<now, rlVars, rqVars, agVars, dcVars, rcVars, exceptBdVars>>

InitDetails ==
    now = 0 /\ RLIdle /\ RQIdle /\ AGIdle /\ DCIdle /\ RCIdle /\ RestIdle

NextDetails == GetBusinessDetails \/ BDGoogle \/ BDHistorical \/ BDUnwind

SpecDetails == InitDetails /\ [][NextDetails]_vars

\* a Google record with the fields the blending test takes for complete
CompleteRecord(r) == r # NoneRec /\ r.rating # 0

\* C18: a call of get_business_details ends with a record, not an error: the
\* Google record with source 'google_places' when Google's data is complete,
\* else TripAdvisor's record (its cuisine and price level, source
\* 'tripadvisor') when TripAdvisor has one.
C18_ProviderFallback ==
    (/\ bdPc \in {"done", "raised"}
     /\ CompleteRecord(bdGoogle) \/ bdTripAdvisor # NoneRec) =>
        /\ bdRaised = None
        /\ IF CompleteRecord(bdGoogle)
           THEN bdResult.source = "google_places" /\ bdResult.rating = bdGoogle.rating
           ELSE bdTripAdvisor # NoneRec =>
                   /\ bdResult.source = "tripadvisor"
                   /\ bdResult.cuisine = bdTripAdvisor.cuisine
                   /\ bdResult.price_level = bdTripAdvisor.price_level

\* C21: every request get_business_data sends to a provider is preceded by
\* an admission of the rate limiter: the requests sent never outnumber the
\* admissions.
C21_AdmitBeforeRequest == agRequests <= Len(admitted)

\* ---------------------------------------------------------------------------
\* Adapter instances and their rate limiters: YelpAdapter.__init__
\* (src/smeanalytica/shared/yelp_adapter.py, lines 39-55),
\* GooglePlacesAdapter.__init__ (src/smeanalytica/shared/google_places_adapter.py,
\* lines 41-61); get_competitors constructs a YelpAdapter in every call
\* (data_source_manager.py line 665)
\* ---------------------------------------------------------------------------

MaxAdapters == 2

AdMaxCalls == 3

AdMaxTime == 70

AdSteps == {35}

\* self.rate_limiter = APIRateLimiter(DataSourceConfig.RATE_LIMITS[...]):
\* every adapter instance gets a limiter of its own, with an empty calls list
NewAdapter ==
    /\ Len(limiters) < MaxAdapters
    /\ limiters' = Append(limiters, <<>>)
    /\ UNCHANGED <<now, rate_limit, adAdmitted>>
    /\ UNCHANGED <<rlVars, rqVars, agVars, dcVars, rcVars, exceptAdVars>>

\* search_business of adapter instance i: self.rate_limiter.wait_if_needed()
\* and then the request (yelp_adapter.py lines 91-107,
\* google_places_adapter.py lines 184-197). rate_limit is positive, so
\* calls[0] exists whenever the limit is reached.
SearchBusiness(i) ==
    /\ Len(adAdmitted) < AdMaxCalls
    /\ LET trimmed == TrimCalls(limiters[i], now)
           sleep_time == IF Len(trimmed) >= rate_limit
                         THEN Window - (now - trimmed[1]) ELSE 0
           wake == IF sleep_time > 0 THEN now + sleep_time ELSE now
       IN /\ now' = wake
          /\ limiters' = [limiters EXCEPT ![i] = Append(trimmed, RecordedCall(now, wake))]
          /\ adAdmitted' = Append(adAdmitted, wake)
    /\ UNCHANGED rate_limit
    /\ UNCHANGED <<rlVars, rqVars, agVars, dcVars, rcVars, exceptAdVars>>

AdapterCall == \E i \in DOMAIN limiters : SearchBusiness(i)

AdTick ==
    /\ \E d \in AdSteps : now + d <= AdMaxTime /\ now' = now + d
    /\ UNCHANGED <<rlVars, rqVars, agVars, dcVars, rcVars, restVars>>

InitAdapters ==
    /\ now = 0 /\ RLIdle /\ RQIdle /\ AGIdle /\ DCIdle /\ RCIdle /\ ExceptAdIdle
    /\ rate_limit \in 1..MaxCpm
    /\ limiters = <<>>
    /\ adAdmitted = <<>>

NextAdapters == NewAdapter \/ AdapterCall \/ AdTick

SpecAdapters == InitAdapters /\ [][NextAdapters]_vars

\* C22: the requests to one provider admitted in any trailing 60-second
\* window, through whichever adapter instances, never outnumber the
\* provider's calls-per-minute limit.
C22_SharedLimiter ==
    \A i \in DOMAIN adAdmitted :
        Cardinality({j \in DOMAIN adAdmitted :
                        adAdmitted[j] > adAdmitted[i] - Window
                        /\ adAdmitted[j] <= adAdmitted[i]}) <= rate_limit

\* C23: with calls_per_minute = 0 wait_if_needed never admits a call, never
\* records one and never fails with an error.
C23_ZeroDisables ==
    calls_per_minute = 0 => (admitted = <<>> /\ calls = <<>> /\ rlError = "none")

\* DataSourcePriority.BUSINESS_INFO (src/smeanalytica/config/data_sources.py)
BUSINESS_INFO == <<"google_places", "yelp", "tripadvisor">>

\* the position of a source in a list of sources
IndexOf(sources, s) == CHOOSE i \in DOMAIN sources : sources[i] = s

\* C24: when both TripAdvisor and Google Places supplied a record, the merged
\* record lists its sources in the order of DataSourcePriority.BUSINESS_INFO
\* and a name both supply is taken from the source listed first there.
C24_ConfiguredOrder ==
    (/\ mergePc = "done"
     /\ TruthyDict(mergeData.tripadvisor) /\ TruthyDict(mergeData.google_places))
        => LET first == IF IndexOf(BUSINESS_INFO, "google_places")
                             < IndexOf(BUSINESS_INFO, "tripadvisor")
                        THEN "google_places" ELSE "tripadvisor"
           IN /\ combined.sources[1] = first
              /\ (mergeData.tripadvisor.name # None /\ mergeData.google_places.name # None)
                    => combined.name = mergeData[first].name

\* ---------------------------------------------------------------------------
\* DataSourceConfig.is_data_sufficient
\* (src/smeanalytica/config/data_sources.py, lines 63-77; the copy in
\* src/config/data_sources.py, lines 49-63, has the same body)
\* ---------------------------------------------------------------------------

\* DataSourceConfig.MINIMUM_REQUIREMENTS
MINIMUM_REQUIREMENTS ==
    [business_info |-> <<"name", "rating", "price_level">>,
     competitors |-> <<"name", "rating", "price_level">>,
     reviews |-> <<"text", "rating", "date">>]

DataTypes == DOMAIN MINIMUM_REQUIREMENTS

\* the keys a record is built from: the required fields and one other key
DataFields == {"name", "rating", "price_level", "text", "date", "source"}

\* a key is absent, or holds None, '' (or an empty list), 0, or a value
Absent == "absent"

FieldValues == {Absent, "None", "", "0", "x"}

\* bool(value) for the value of a key that is there
Truthy(v) == v \notin {"None", "", "0"}

\* bool(data) for a dict: it has a key
NonEmptyDict(d) == \E f \in DOMAIN d : d[f] # Absent

RECURSIVE CountPresent(_, _)
\* sum(1 for field in required_fields if field in data and data[field])
CountPresent(required_fields, d) ==
    IF required_fields = <<>> THEN 0
    ELSE (IF d[Head(required_fields)] # Absent /\ Truthy(d[Head(required_fields)])
          THEN 1 ELSE 0) + CountPresent(Tail(required_fields), d)

\* variant: business_info needs every required field as well
is_data_sufficient_strict(data_type, d) ==
    IF ~NonEmptyDict(d) THEN FALSE
    ELSE CountPresent(MINIMUM_REQUIREMENTS[data_type], d)
            = Len(MINIMUM_REQUIREMENTS[data_type])

\* present_fields >= len(required_fields) * 2/3, as present * 3 >= len * 2
is_data_sufficient(data_type, d) ==
    IF ~NonEmptyDict(d) THEN FALSE
    ELSE LET required_fields == MINIMUM_REQUIREMENTS[data_type] IN
         IF data_type = "business_info"
         THEN CountPresent(required_fields, d) * 3 >= Len(required_fields) * 2
         ELSE \A i \in DOMAIN required_fields :
                 d[required_fields[i]] # Absent /\ Truthy(d[required_fields[i]])

IsDataSufficient ==
    /\ sfPc = "ready"
    /\ sfResult' = is_data_sufficient(sfType, sfData)
    /\ sfPc' = "done"
    /\ UNCHANGED <<sfType, sfData>>
    /\ UNCHANGED <<now, rlVars, rqVars, agVars, dcVars, rcVars, exceptSfVars>>

InitSufficient ==
    /\ now = 0 /\ RLIdle /\ RQIdle /\ AGIdle /\ DCIdle /\ RCIdle /\ ExceptSfIdle
    /\ sfPc = "ready"
    /\ sfType \in DataTypes
    /\ sfData \in [DataFields -> FieldValues]
    /\ sfResult = FALSE

NextSufficient == IsDataSufficient

SpecSufficient == InitSufficient /\ [][NextSufficient]_vars

\* the fields of a set that a record holds with a non-empty value: not
\* None, not '' or an empty list, and not 0
PresentNonEmpty(d, fields) == {f \in fields : d[f] \in {"x"}}

Backoff(k) == base_wait_time * Pow2(k)

\* C28: after a 429 on attempt k that is not the last attempt, the call
\* waits at least max(Retry-After, base_delay * 2^k) and at most 2 seconds
\* more before the next attempt.
C28_BackoffAfter429 ==
    (/\ executor = "_make_api_request"
     /\ rqAnswer = "429"
     /\ rqAttempt < max_retries - 1)
        => /\ rqWait # NoneInt
           /\ rqWait >= Max(rqHeader, Backoff(rqAttempt))
           /\ rqWait <= Max(rqHeader, Backoff(rqAttempt)) + 2

\* C29: _make_api_request sends at most max_retries requests in one call.
C29_BoundedRequests ==
    executor = "_make_api_request" => rqRequests <= max_retries

\* ---------------------------------------------------------------------------
\* TripAdvisorAdapter.get_complete_data and _make_request
\* (src/smeanalytica/shared/tripadvisor_adapter.py, lines 35-82 and 166-192)
\* ---------------------------------------------------------------------------

TAMaxCalls == 2

\* the most requests one endpoint is sent before the exploration stops
TAMaxRequests == 3

\* the endpoints in the order get_complete_data requests them
Endpoints == <<"search", "details", "reviews", "photos">>

\* the endpoint after e, "done" after the last
NextEndpoint(e) ==
    LET i == CHOOSE k \in DOMAIN Endpoints : Endpoints[k] = e IN
    IF i < Len(Endpoints) THEN Endpoints[i + 1] ELSE "done"

\* what the provider answers: 200 with the data, 200 without a 'data' key,
\* 429, another status, or no answer
TAAnswers == {"200", "200 no data", "429", "500", "error"}

\* the module imports os, logging, aiohttp, json, typing, datetime and
\* DataCache (lines 3-9): the name asyncio that _make_request uses at lines
\* 172 and 184 is not defined
\* variant: asyncio is imported
AsyncioImportedToo == TRUE

AsyncioImported == FALSE

\* one pass through _make_request; soon: less than 1/max_requests_per_second
\* has passed since last_request_time. [raised, value, requests, again]:
\* again = the method sleeps and calls itself (line 185)
_make_request(soon, answer) ==
    IF soon /\ ~AsyncioImported
    THEN \* await asyncio.sleep(...) before the try: NameError leaves the method
         [raised |-> "NameError", value |-> "{}", requests |-> 0, again |-> FALSE]
    ELSE IF answer = "200"
         THEN [raised |-> None, value |-> "data", requests |-> 1, again |-> FALSE]
    ELSE IF answer = "200 no data"
         THEN [raised |-> None, value |-> "no data", requests |-> 1, again |-> FALSE]
    ELSE IF answer = "429"
         THEN IF AsyncioImported
              THEN [raised |-> None, value |-> "{}", requests |-> 1, again |-> TRUE]
              ELSE \* NameError at line 184, caught at line 190
                   [raised |-> None, value |-> "{}", requests |-> 1, again |-> FALSE]
    ELSE IF answer = "500"
         THEN [raised |-> None, value |-> "{}", requests |-> 1, again |-> FALSE]
    ELSE \* the session raised: one request was attempted
         [raised |-> None, value |-> "{}", requests |-> 1, again |-> FALSE]

\* get_complete_data up to its first await (lines 37-45): the cache is read;
\* an entry that is there may have expired
TAGetCompleteData ==
    /\ taPc \in {"idle", "done"}
    /\ taCalls < TAMaxCalls
    /\ taCalls' = taCalls + 1
    /\ taCacheReads' = 1
    /\ taCacheWrites' = 0
    /\ taRequests' = [e \in DOMAIN taRequests |-> 0]
    /\ taAnswers' = {}
    /\ taError' = None
    /\ \E hit \in {taCache, FALSE} :
         IF hit
         THEN taPc' = "done" /\ taResult' = "cached" /\ UNCHANGED taCache
         ELSE taPc' = "search" /\ taResult' = None /\ taCache' = taCache
    /\ UNCHANGED <<now, rlVars, rqVars, agVars, dcVars, rcVars, exceptTaVars>>

\* the request of one endpoint through _make_request and what
\* get_complete_data does with the answer (lines 45-82)
TARequest ==
    /\ taPc \in {Endpoints[i] : i \in DOMAIN Endpoints}
    /\ taRequests[taPc] < TAMaxRequests
    /\ \E soon \in BOOLEAN, answer \in TAAnswers :
         LET r == _make_request(soon, answer) IN
         /\ taRequests' = [taRequests EXCEPT ![taPc] = @ + r.requests]
         /\ taAnswers' = IF r.requests > 0 THEN taAnswers \cup {answer} ELSE taAnswers
         /\ IF r.raised # None
            THEN \* caught at line 80
                 /\ taError' = r.raised
                 /\ taResult' = "{}"
                 /\ taPc' = "done"
                 /\ UNCHANGED <<taCache, taCacheWrites>>
            ELSE IF r.again
            THEN UNCHANGED <<taPc, taError, taResult, taCache, taCacheWrites>>
            ELSE IF taPc = "search" /\ r.value # "data"
            THEN \* `not search_results or 'data' not in search_results`
                 /\ taResult' = "{}"
                 /\ taPc' = "done"
                 /\ UNCHANGED <<taError, taCache, taCacheWrites>>
            ELSE /\ taPc' = NextEndpoint(taPc)
                 /\ UNCHANGED taError
                 /\ IF NextEndpoint(taPc) = "done"
                    THEN \* self.cache.set(cache_key, complete_data, ...)
                         /\ taCache' = TRUE
                         /\ taCacheWrites' = taCacheWrites + 1
                         /\ taResult' = "complete"
                    ELSE UNCHANGED <<taCache, taCacheWrites, taResult>>
    /\ UNCHANGED <<taCacheReads, taCalls>>
    /\ UNCHANGED <<now, rlVars, rqVars, agVars, dcVars, rcVars, exceptTaVars>>

InitTripAdvisor ==
    now = 0 /\ RLIdle /\ RQIdle /\ AGIdle /\ DCIdle /\ RCIdle /\ RestIdle

NextTripAdvisor == TAGetCompleteData \/ TARequest

SpecTripAdvisor == InitTripAdvisor /\ [][NextTripAdvisor]_vars

\* C25: adapters neither cache nor retry: in an operation of the TripAdvisor
\* adapter no cache is read or written and every endpoint is requested at
\* most once, whatever the provider answers.
C25_NoCacheNoRetry ==
    /\ taCacheReads = 0
    /\ taCacheWrites = 0
    /\ \A e \in DOMAIN taRequests : taRequests[e] <= 1

C31_DetailsTerminate ==
    /\ Len(bdStack) < RecursionLimit
    /\ (bdPc \in {"done", "raised"} /\ bdGoogle # NoneRec) =>
          (bdPc = "done" /\ bdRaised = None /\ bdResult # NoneRec)

\* C32: a get_competitors call without a location and without a cached entry
\* takes the location from get_business_data and goes on to the competitor
\* providers: it does not end with the empty list of the outer except before
\* any competitor provider was asked.
C32_LocationFromBusinessData ==
    (gcPc = "done" /\ ~gcFromCache /\ gcArgs.location = None)
        => ~(gcResult = <<>> /\ gcError = "AttributeError")

\* C33: once get_competitors has cached a result, a later call for the same
\* key within the TTL is answered from the cache, an empty list included: no
\* call is on its way to the providers while the cache holds an unexpired
\* entry for its key.
C33_CachedCompetitorsServed ==
    gcPc \in {"business_data", "google", "yelp"} =>
        LET entry == cache[_get_cache_key(gcArgs.name, "competitors")] IN
        ~(entry # NoneRec /\ CacheFresh(entry.timestamp, now))

\* the cache holds an unexpired entry under key k
FreshEntry(k) == cache[k] # NoneRec /\ CacheFresh(cache[k].timestamp, now)

\* a list of reviews holding the placeholder of get_reviews
HoldsPlaceholder(reviews) == \E i \in 1..Len(reviews) : reviews[i].source = "default"

\* C34: degraded results and the cache. A get_business_data call whose Places
\* step failed caches the record it returns, rating and price level null; a
\* call without force_refresh goes to the providers only when the cache has
\* no unexpired entry for the business, and a call answered from the cache
\* returns the cached record without a provider request. get_reviews never
\* caches its placeholder review: after a call that returned the placeholder
\* the cache has no reviews entry for the business, and no call answered
\* from the cache returns the placeholder.
C34_DegradedAndCache ==
    /\ (agPc = "done" /\ ~agFromCache /\ "places" \in agFailed) =>
          LET entry == cache[_get_cache_key(agArgs.name, "business_data")] IN
          /\ agResult.rating = NoneInt /\ agResult.price_level = NoneInt
          /\ entry # NoneRec /\ entry.data = agResult
    /\ (agPc \in {"places", "competitors", "market"} /\ ~agArgs.force_refresh) =>
          ~FreshEntry(_get_cache_key(agArgs.name, "business_data"))
    /\ (agPc = "done" /\ agFromCache) =>
          /\ agRequests = 0 /\ agSteps = 0
          /\ agResult = cache[_get_cache_key(agArgs.name, "business_data")].data
    /\ (grPc = "done" /\ ~grFromCache /\ HoldsPlaceholder(grResult)) =>
          cache[_get_cache_key(grArgs.business_name, "reviews")] = NoneRec
    /\ (grPc = "done" /\ grFromCache) => ~HoldsPlaceholder(grResult)
    /\ grPc \in {"google", "yelp", "tripadvisor"} =>
          ~FreshEntry(_get_cache_key(grArgs.business_name, "reviews"))

\* a second get_business_data call was answered from the cache with the
\* null-metric record a call with a failed Places step had stored
C34_Witness ==
    /\ agPc = "done" /\ agFromCache /\ agCalls = 2
    /\ agResult.rating = NoneInt
    /\ agRequests = 0

\* C35: whatever set, get, invalidate and clear calls run between the rounds
\* of the periodic cleanup, a round removes only entries that are expired at
\* the moment it removes them; an entry set again before the round is judged
\* by its new expiry and stays.
C35_CleanupRemovesOnlyExpired ==
    [][PeriodicCleanup =>
          \A k \in Keys :
             (dcCache[k] # NoneRec /\ dcCache'[k] = NoneRec)
                 => _is_expired(dcCache[k].timestamp, now)
      ]_vars

\* a round has removed an expired entry and left an unexpired one in place
C35_Witness ==
    /\ cleanupPc = "sleep"
    /\ \E k \in expired_keys : dcCache[k] = NoneRec
    /\ \E k \in Keys \ expired_keys :
          dcCache[k] # NoneRec /\ ~_is_expired(dcCache[k].timestamp, now)

\* ---------------------------------------------------------------------------
\* The API rate-limit middleware
\* (src/smeanalytica/api/middleware/rate_limit.py)
\* ---------------------------------------------------------------------------

MwMaxCalls == 5

MwMaxTime == 5400

MwSteps == {1800}

\* RATE_LIMITS (lines 13-17) for two endpoint types; the request counts are
\* scaled down from 100 and 50, the windows are the source's
RATE_LIMITS ==
    [analysis |-> [requests |-> 2, window |-> 3600],
     search |-> [requests |-> 1, window |-> 3600]]

EndpointTypes == DOMAIN RATE_LIMITS

\* rate_limit_cache = TTLCache(maxsize=1000, ttl=3600): the ttl
MwTtl == 3600

\* the clients, by API key or address
Clients == {"A", "B"}

\* TTLCache: an entry is gone once the clock has reached its expiry
InTTLCache(c, k, t) == c[k] # NoneRec /\ t < c[k].expires

\* get_rate_limiter: the cached RateLimiter of the endpoint type, or a new
\* one, with no requests, stored under the type; [limiter, cache]
get_rate_limiter(c, endpoint_type, t) ==
    IF ~InTTLCache(c, endpoint_type, t)
    THEN LET config == RATE_LIMITS[endpoint_type]
             limiter == [limit |-> config.requests, window |-> config.window,
                         requests |-> <<>>]
         IN [limiter |-> limiter,
             cache |-> [c EXCEPT ![endpoint_type] =
                                    [limiter |-> limiter, expires |-> t + MwTtl]]]
    ELSE [limiter |-> c[endpoint_type].limiter, cache |-> c]

\* RateLimiter.is_allowed(key): key is not used; [allowed, limiter]
is_allowed(limiter, key, t) ==
    LET Recent(req_time) == t - req_time < limiter.window
        kept == SelectSeq(limiter.requests, Recent)
    IN IF Len(kept) < limiter.limit
       THEN [allowed |-> TRUE, limiter |-> [limiter EXCEPT !.requests = Append(kept, t)]]
       ELSE [allowed |-> FALSE, limiter |-> [limiter EXCEPT !.requests = kept]]

\* a request reaches an endpoint decorated with rate_limit(endpoint_type)
\* (lines 66-81)
MwRequest ==
    /\ mwCalls < MwMaxCalls
    /\ \E client_id \in Clients, endpoint_type \in EndpointTypes :
         LET got == get_rate_limiter(rate_limit_cache, endpoint_type, now)
             r == is_allowed(got.limiter, <<endpoint_type, client_id>>, now)
         IN /\ rate_limit_cache' =
                   [got.cache EXCEPT ![endpoint_type].limiter = r.limiter]
            /\ mwLast' = [client |-> client_id, endpoint |-> endpoint_type,
                          allowed |-> r.allowed, t |-> now]
            /\ mwAllowed' = IF r.allowed
                            THEN Append(mwAllowed, [client |-> client_id,
                                                    endpoint |-> endpoint_type, t |-> now])
                            ELSE mwAllowed
    /\ mwCalls' = mwCalls + 1
    /\ UNCHANGED <<now, rlVars, rqVars, agVars, dcVars, rcVars, exceptMwVars>>

MwTick ==
    /\ \E d \in MwSteps : now + d <= MwMaxTime /\ now' = now + d
    /\ UNCHANGED <<rlVars, rqVars, agVars, dcVars, rcVars, restVars>>

InitMiddleware ==
    now = 0 /\ RLIdle /\ RQIdle /\ AGIdle /\ DCIdle /\ RCIdle /\ RestIdle

NextMiddleware == MwRequest \/ MwTick

SpecMiddleware == InitMiddleware /\ [][NextMiddleware]_vars

\* the allowed requests to an endpoint type, of the clients in cs, made in
\* the `window` seconds that end at reading t (t included)
AllowedIn(endpoint_type, cs, t) ==
    {i \in 1..Len(mwAllowed) :
        /\ mwAllowed[i].endpoint = endpoint_type
        /\ mwAllowed[i].client \in cs
        /\ mwAllowed[i].t <= t
        /\ t - mwAllowed[i].t < RATE_LIMITS[endpoint_type].window}

\* C36: for each endpoint type, the requests allowed in any interval of
\* `window` seconds never outnumber `limit`, across the expiry of the
\* RateLimiter's entry in the TTLCache too.
C36_SlidingWindowHolds ==
    \A e \in EndpointTypes :
       Cardinality(AllowedIn(e, Clients, now)) <= RATE_LIMITS[e].requests

\* C37: whether a client's request is allowed depends on that client's own
\* earlier requests alone: it is refused only when the client's own allowed
\* requests to the endpoint type in the window have used up the limit.
C37_ClientIsolation ==
    (mwLast # NoneRec /\ ~mwLast.allowed) =>
        Cardinality(AllowedIn(mwLast.endpoint, {mwLast.client}, mwLast.t))
            >= RATE_LIMITS[mwLast.endpoint].requests

\* C38: in an initialized DataCache hits + misses is the number of get calls
\* completed since the last clear and hit_rate lies between 0 and 1; every
\* completed get adds one to exactly one of the two counters, and the get of
\* an expired key adds it to misses.
C38_CountersConsistent ==
    /\ [](initialized =>
             /\ hits + misses = dcGets
             /\ hits >= 0 /\ misses >= 0
             /\ hit_rate(hits, misses) \in 0..100)
    /\ [][dcGets' = dcGets + 1 =>
             /\ \/ (hits' = hits + 1 /\ misses' = misses)
                \/ (hits' = hits /\ misses' = misses + 1)
             /\ (dcCache[dcGot'.key] # NoneRec
                   /\ _is_expired(dcCache[dcGot'.key].timestamp, now))
                   => (misses' = misses + 1 /\ dcGot'.value = None)
       ]_vars

\* a hit and then the lookup of the same key after its expiry, counted as a miss
C38_Witness ==
    /\ initialized
    /\ dcGets = 2 /\ hits = 1 /\ misses = 1
    /\ dcGot # NoneRec /\ dcGot.evicted

====
